---- MODULE Spec2Model ----
(***************************************************************************)
(* A model of the rcx_pi_rust core: the Mu term type, the structural       *)
(* classifier (traits.rs), the engine matcher and rule engine (engine.rs), *)
(* the orbit matcher (matching.rs) and the run state (state.rs).           *)
(*                                                                         *)
(* A Rust String is a sequence of one-character strings; a Mu is a record  *)
(* [tag, name, kids]; an Option<Mu> is a sequence of length 0 or 1; a      *)
(* HashMap<String, Mu> is a function whose domain is a set of names.       *)
(***************************************************************************)
EXTENDS Integers, Sequences, FiniteSets, TLC

VARIABLES program, current, ra, lobes, sink, null_reg, inf_reg, trace,
          step_counter, call

vars == <<program, current, ra, lobes, sink, null_reg, inf_reg, trace,
          step_counter, call>>

state_vars == <<current, ra, lobes, sink, null_reg, inf_reg, trace, step_counter>>

(***************************************************************************)
(* types.rs: Mu, RuleAction, RcxRule                                       *)
(***************************************************************************)
Sym(s) == [tag |-> "Sym", name |-> s, kids |-> <<>>]

Node(cs) == [tag |-> "Node", name |-> <<>>, kids |-> cs]

ToRa == [kind |-> "ToRa", template |-> <<>>]

ToLobe == [kind |-> "ToLobe", template |-> <<>>]

ToSink == [kind |-> "ToSink", template |-> <<>>]

Rewrite(t) == [kind |-> "Rewrite", template |-> <<t>>]

RcxRule(p, a) == [pattern |-> p, action |-> a]

(***************************************************************************)
(* Symbol names used by the source, its tests and the inputs below.        *)
(***************************************************************************)
UNSTABLE == <<"U", "N", "S", "T", "A", "B", "L", "E">>

PARADOX == <<"P", "A", "R", "A", "D", "O", "X">>

STABLE == <<"S", "T", "A", "B", "L", "E">>

NEWS == <<"N", "E", "W", "S">>

PING == <<"P", "I", "N", "G">>

PONG == <<"P", "O", "N", "G">>

WILD == <<"_">>

DX == <<"$", "x">>

DY == <<"$", "y">>

LowerX == <<"x">>

LowerY == <<"y">>

NameA == <<"A">>

NameB == <<"B">>

LowerLetters == {"a", "b", "c", "d", "e", "f", "g", "h", "i", "j", "k", "l", "m", "n", "o", "p", "q", "r", "s", "t", "u", "v", "w", "x", "y", "z"}

(***************************************************************************)
(* traits.rs: classify                                                     *)
(***************************************************************************)
\* The loop over the children of a Node of arity >= 2 (traits.rs 45-63):
\* sym_head is <<>> (None) or <<name>> (Some(name)).
RECURSIVE classify_scan(_, _, _)
classify_scan(children, i, sym_head) ==
    IF i > Len(children) THEN "Lobe"
    ELSE IF children[i].tag = "Sym"
         THEN IF sym_head # <<>>
              THEN IF sym_head[1] # children[i].name
                   THEN "Sink"
                   ELSE classify_scan(children, i + 1, sym_head)
              ELSE classify_scan(children, i + 1, <<children[i].name>>)
         ELSE "Sink"

\* classify without the tag overrides.
classify_dropped_override(mu) ==
    IF mu.tag = "Sym" THEN "Ra"
    ELSE IF Len(mu.kids) <= 1 THEN "Lobe"
    ELSE classify_scan(mu.kids, 1, <<>>)

classify(mu) ==
    IF mu.tag = "Node" /\ Len(mu.kids) > 0 /\ mu.kids[1].tag = "Sym"
       /\ mu.kids[1].name = UNSTABLE
    THEN "Lobe"
    ELSE IF mu.tag = "Node" /\ Len(mu.kids) > 0 /\ mu.kids[1].tag = "Sym"
            /\ mu.kids[1].name = PARADOX
    THEN "Sink"
    ELSE IF mu.tag = "Sym" THEN "Ra"
    ELSE IF Len(mu.kids) <= 1 THEN "Lobe"
    ELSE classify_scan(mu.kids, 1, <<>>)

(***************************************************************************)
(* engine.rs: match_with_vars, apply_subst                                 *)
(***************************************************************************)
starts_with_dollar(s) == Len(s) > 0 /\ s[1] = "$"

\* HashMap::insert
MapInsert(m, k, v) == [n \in (DOMAIN m) \cup {k} |-> IF n = k THEN v ELSE m[n]]

EmptyMap == [n \in {} |-> Sym(<<>>)]

RECURSIVE match_with_vars_rebinds(_, _, _)
RECURSIVE match_children_rebinds(_, _, _, _)
match_children_rebinds(ps, vs, i, subst) ==
    IF i > Len(ps) THEN [ok |-> TRUE, subst |-> subst]
    ELSE LET r == match_with_vars_rebinds(ps[i], vs[i], subst)
         IN  IF ~r.ok THEN [ok |-> FALSE, subst |-> r.subst]
             ELSE match_children_rebinds(ps, vs, i + 1, r.subst)

\* match_with_vars with a $variable that is bound again on each occurrence
\* instead of being compared with its binding.
match_with_vars_rebinds(pattern, value, subst) ==
    IF pattern.tag = "Sym" /\ pattern.name = WILD
    THEN [ok |-> TRUE, subst |-> subst]
    ELSE IF pattern.tag = "Sym" /\ starts_with_dollar(pattern.name)
    THEN [ok |-> TRUE, subst |-> MapInsert(subst, Tail(pattern.name), value)]
    ELSE IF pattern.tag = "Sym" /\ value.tag = "Sym"
    THEN [ok |-> pattern.name = value.name, subst |-> subst]
    ELSE IF pattern.tag = "Node" /\ value.tag = "Node"
            /\ Len(pattern.kids) = Len(value.kids)
    THEN match_children_rebinds(pattern.kids, value.kids, 1, subst)
    ELSE [ok |-> FALSE, subst |-> subst]

RECURSIVE match_with_vars(_, _, _)
RECURSIVE match_children(_, _, _, _)
\* The for loop over ps.iter().zip(vs.iter()) (engine.rs 36-41).
match_children(ps, vs, i, subst) ==
    IF i > Len(ps) THEN [ok |-> TRUE, subst |-> subst]
    ELSE LET r == match_with_vars(ps[i], vs[i], subst)
         IN  IF ~r.ok THEN [ok |-> FALSE, subst |-> r.subst]
             ELSE match_children(ps, vs, i + 1, r.subst)

\* Returns the bool and the HashMap as the call leaves it.
match_with_vars(pattern, value, subst) ==
    IF pattern.tag = "Sym" /\ pattern.name = WILD
    THEN [ok |-> TRUE, subst |-> subst]
    ELSE IF pattern.tag = "Sym" /\ starts_with_dollar(pattern.name)
    THEN LET name == Tail(pattern.name)
         IN  IF name \in DOMAIN subst
             THEN [ok |-> subst[name] = value, subst |-> subst]
             ELSE [ok |-> TRUE, subst |-> MapInsert(subst, name, value)]
    ELSE IF pattern.tag = "Sym" /\ value.tag = "Sym"
    THEN [ok |-> pattern.name = value.name, subst |-> subst]
    ELSE IF pattern.tag = "Node" /\ value.tag = "Node"
            /\ Len(pattern.kids) = Len(value.kids)
    THEN match_children(pattern.kids, value.kids, 1, subst)
    ELSE [ok |-> FALSE, subst |-> subst]

RECURSIVE apply_subst_strips_unbound(_, _)
\* apply_subst with an unbound $variable left as its name without the `$`.
apply_subst_strips_unbound(term, subst) ==
    IF term.tag = "Sym"
    THEN IF starts_with_dollar(term.name)
         THEN LET name == Tail(term.name)
              IN  IF name \in DOMAIN subst THEN subst[name] ELSE Sym(name)
         ELSE Sym(term.name)
    ELSE Node([i \in 1..Len(term.kids) |->
                  apply_subst_strips_unbound(term.kids[i], subst)])

RECURSIVE apply_subst(_, _)
apply_subst(term, subst) ==
    IF term.tag = "Sym"
    THEN IF starts_with_dollar(term.name)
         THEN LET name == Tail(term.name)
              IN  IF name \in DOMAIN subst THEN subst[name] ELSE Sym(term.name)
         ELSE Sym(term.name)
    ELSE Node([i \in 1..Len(term.kids) |-> apply_subst(term.kids[i], subst)])

(***************************************************************************)
(* matching.rs: is_var, match_pattern, substitute_template                 *)
(***************************************************************************)
is_var(name) == Len(name) = 1 /\ name[1] \in LowerLetters

RECURSIVE match_pattern(_, _, _)
RECURSIVE match_pattern_children(_, _, _, _)
match_pattern_children(ps, ts, i, env) ==
    IF i > Len(ps) THEN [ok |-> TRUE, env |-> env]
    ELSE LET r == match_pattern(ps[i], ts[i], env)
         IN  IF ~r.ok THEN [ok |-> FALSE, env |-> r.env]
             ELSE match_pattern_children(ps, ts, i + 1, r.env)

\* match_pattern without the arity test: the children are zipped to the
\* shorter of the two lists.
match_pattern_any_arity(pattern, term, env) ==
    IF pattern.tag = "Sym" /\ is_var(pattern.name)
    THEN IF pattern.name \in DOMAIN env
         THEN [ok |-> env[pattern.name] = term, env |-> env]
         ELSE [ok |-> TRUE, env |-> MapInsert(env, pattern.name, term)]
    ELSE IF pattern.tag = "Sym"
    THEN [ok |-> term.tag = "Sym" /\ term.name = pattern.name, env |-> env]
    ELSE IF term.tag = "Node"
         THEN IF Len(pattern.kids) <= Len(term.kids)
              THEN match_pattern_children(pattern.kids, term.kids, 1, env)
              ELSE match_pattern_children(SubSeq(pattern.kids, 1, Len(term.kids)),
                                          term.kids, 1, env)
         ELSE [ok |-> FALSE, env |-> env]

match_pattern(pattern, term, env) ==
    IF pattern.tag = "Sym" /\ is_var(pattern.name)
    THEN IF pattern.name \in DOMAIN env
         THEN [ok |-> env[pattern.name] = term, env |-> env]
         ELSE [ok |-> TRUE, env |-> MapInsert(env, pattern.name, term)]
    ELSE IF pattern.tag = "Sym"
    THEN [ok |-> term.tag = "Sym" /\ term.name = pattern.name, env |-> env]
    ELSE IF term.tag = "Node"
         THEN IF Len(pattern.kids) # Len(term.kids)
              THEN [ok |-> FALSE, env |-> env]
              ELSE match_pattern_children(pattern.kids, term.kids, 1, env)
         ELSE [ok |-> FALSE, env |-> env]

RECURSIVE substitute_template(_, _)
substitute_template(template, env) ==
    IF template.tag = "Sym" /\ is_var(template.name)
    THEN IF template.name \in DOMAIN env THEN env[template.name]
         ELSE Sym(template.name)
    ELSE IF template.tag = "Sym" THEN Sym(template.name)
    ELSE Node([i \in 1..Len(template.kids) |->
                  substitute_template(template.kids[i], env)])

(***************************************************************************)
(* state.rs: RCXState, log_event; trace.rs: RouteKind, TraceEvent          *)
(* A state is a record st; a RouteKind or Classification is its name.      *)
(***************************************************************************)
\* The phase labels passed to log_event, as the source spells them.
PhaseStructuralRa == <<"e", "n", "g", "i", "n", "e", "_", "s", "t", "r", "u", "c", "t", "u", "r", "a", "l", "_", "r", "a">>

PhaseStructuralLobe == <<"e", "n", "g", "i", "n", "e", "_", "s", "t", "r", "u", "c", "t", "u", "r", "a", "l", "_", "l", "o", "b", "e">>

PhaseStructuralSink == <<"e", "n", "g", "i", "n", "e", "_", "s", "t", "r", "u", "c", "t", "u", "r", "a", "l", "_", "s", "i", "n", "k">>

PhaseRuleToRa == <<"e", "n", "g", "i", "n", "e", "_", "r", "u", "l", "e", "_", "t", "o", "_", "r", "a">>

PhaseRuleToLobe == <<"e", "n", "g", "i", "n", "e", "_", "r", "u", "l", "e", "_", "t", "o", "_", "l", "o", "b", "e">>

PhaseRuleToSink == <<"e", "n", "g", "i", "n", "e", "_", "r", "u", "l", "e", "_", "t", "o", "_", "s", "i", "n", "k">>

PhaseRuleRewrite == <<"e", "n", "g", "i", "n", "e", "_", "r", "u", "l", "e", "_", "r", "e", "w", "r", "i", "t", "e">>

PhaseStep == <<"s", "t", "e", "p", "(", "s", "t", "r", "u", "c", "t", "u", "r", "a", "l", ")">>

PhaseCwpRule == <<"c", "l", "a", "s", "s", "i", "f", "y", "_", "w", "i", "t", "h", "_", "p", "r", "o", "g", "r", "a", "m", "(", "r", "u", "l", "e", ")">>

PhaseCwpStructural == <<"c", "l", "a", "s", "s", "i", "f", "y", "_", "w", "i", "t", "h", "_", "p", "r", "o", "g", "r", "a", "m", "(", "s", "t", "r", "u", "c", "t", "u", "r", "a", "l", ")">>

\* RCXState::new()
NewState ==
    [current |-> <<>>, ra |-> <<>>, lobes |-> <<>>, sink |-> <<>>,
     null_reg |-> <<>>, inf_reg |-> <<>>, trace |-> <<>>, step_counter |-> 0]

\* RCXState::with_seed(mu)
with_seed(mu) == [NewState EXCEPT !.current = <<mu>>]

log_event(st, phase, route, payload) ==
    [st EXCEPT !.step_counter = st.step_counter + 1,
               !.trace = Append(st.trace,
                                [step_index |-> st.step_counter + 1,
                                 phase |-> phase, route |-> route,
                                 payload |-> payload])]

(***************************************************************************)
(* engine.rs: structural_classify, Engine::apply_program_rules,            *)
(* Engine::process_input. Each returns the state it leaves and its result; *)
(* an Option<RouteKind> is <<>> or <<route>>.                              *)
(***************************************************************************)
structural_classify(st, mu) ==
    LET c == classify(mu)
    IN  IF c = "Ra"
        THEN [st |-> log_event([st EXCEPT !.ra = Append(st.ra, mu)],
                               PhaseStructuralRa, "Ra", mu),
              route |-> "Ra"]
        ELSE IF c = "Lobe"
        THEN [st |-> log_event([st EXCEPT !.lobes = Append(st.lobes, mu)],
                               PhaseStructuralLobe, "Lobe", mu),
              route |-> "Lobe"]
        ELSE [st |-> log_event([st EXCEPT !.sink = Append(st.sink, mu)],
                               PhaseStructuralSink, "Sink", mu),
              route |-> "Sink"]

RECURSIVE fire_rule(_, _, _, _)
RECURSIVE apply_program_rules_back(_, _, _, _)
\* The scan run from the last rule to the first: the last match wins.
apply_program_rules_back(rules, st, input, i) ==
    IF i < 1 THEN [st |-> st, ret |-> <<>>]
    ELSE LET m == match_with_vars(rules[i].pattern, input, EmptyMap)
         IN  IF ~m.ok THEN apply_program_rules_back(rules, st, input, i - 1)
             ELSE fire_rule(st, rules[i], input, m.subst)

apply_program_rules_last_match(rules, st, input) ==
    apply_program_rules_back(rules, st, input, Len(rules))

\* fire_rule with a Rewrite arm that also keeps the input, in ra.
fire_rule_keeps_input(st, rule, input, subst) ==
    IF rule.action.kind = "ToRa"
    THEN [st |-> log_event([st EXCEPT !.ra = Append(st.ra, input)],
                           PhaseRuleToRa, "Ra", input),
          ret |-> <<"Ra">>]
    ELSE IF rule.action.kind = "ToLobe"
    THEN [st |-> log_event([st EXCEPT !.lobes = Append(st.lobes, input)],
                           PhaseRuleToLobe, "Lobe", input),
          ret |-> <<"Lobe">>]
    ELSE IF rule.action.kind = "ToSink"
    THEN [st |-> log_event([st EXCEPT !.sink = Append(st.sink, input)],
                           PhaseRuleToSink, "Sink", input),
          ret |-> <<"Sink">>]
    ELSE LET rewritten == apply_subst(rule.action.template[1], subst)
             r == structural_classify([st EXCEPT !.ra = Append(st.ra, input)],
                                      rewritten)
         IN  [st |-> log_event(r.st, PhaseRuleRewrite, r.route, rewritten),
              ret |-> <<r.route>>]

\* fire_rule with a Rewrite arm that classifies and stores the input.
fire_rule_classifies_input(st, rule, input, subst) ==
    IF rule.action.kind = "ToRa"
    THEN [st |-> log_event([st EXCEPT !.ra = Append(st.ra, input)],
                           PhaseRuleToRa, "Ra", input),
          ret |-> <<"Ra">>]
    ELSE IF rule.action.kind = "ToLobe"
    THEN [st |-> log_event([st EXCEPT !.lobes = Append(st.lobes, input)],
                           PhaseRuleToLobe, "Lobe", input),
          ret |-> <<"Lobe">>]
    ELSE IF rule.action.kind = "ToSink"
    THEN [st |-> log_event([st EXCEPT !.sink = Append(st.sink, input)],
                           PhaseRuleToSink, "Sink", input),
          ret |-> <<"Sink">>]
    ELSE LET rewritten == apply_subst(rule.action.template[1], subst)
             r == structural_classify(st, input)
         IN  [st |-> log_event(r.st, PhaseRuleRewrite, r.route, rewritten),
              ret |-> <<r.route>>]

\* fire_rule with ToBucket arms that let the classifier choose the bucket.
fire_rule_ignores_bucket(st, rule, input, subst) ==
    IF rule.action.kind # "Rewrite"
    THEN LET r == structural_classify(st, input)
         IN  [st |-> r.st, ret |-> <<r.route>>]
    ELSE LET rewritten == apply_subst(rule.action.template[1], subst)
             r == structural_classify(st, rewritten)
         IN  [st |-> log_event(r.st, PhaseRuleRewrite, r.route, rewritten),
              ret |-> <<r.route>>]

\* The body of the for loop once rule has matched with bindings subst
\* (engine.rs 134-162).
\* fire_rule with a Rewrite arm that logs its own event as RouteKind::Rewrite.
fire_rule_logs_rewrite(st, rule, input, subst) ==
    IF rule.action.kind = "ToRa"
    THEN [st |-> log_event([st EXCEPT !.ra = Append(st.ra, input)],
                           PhaseRuleToRa, "Ra", input),
          ret |-> <<"Ra">>]
    ELSE IF rule.action.kind = "ToLobe"
    THEN [st |-> log_event([st EXCEPT !.lobes = Append(st.lobes, input)],
                           PhaseRuleToLobe, "Lobe", input),
          ret |-> <<"Lobe">>]
    ELSE IF rule.action.kind = "ToSink"
    THEN [st |-> log_event([st EXCEPT !.sink = Append(st.sink, input)],
                           PhaseRuleToSink, "Sink", input),
          ret |-> <<"Sink">>]
    ELSE LET rewritten == apply_subst(rule.action.template[1], subst)
             r == structural_classify(st, rewritten)
         IN  [st |-> log_event(r.st, PhaseRuleRewrite, "Rewrite", rewritten),
              ret |-> <<r.route>>]

fire_rule(st, rule, input, subst) ==
    IF rule.action.kind = "ToRa"
    THEN [st |-> log_event([st EXCEPT !.ra = Append(st.ra, input)],
                           PhaseRuleToRa, "Ra", input),
          ret |-> <<"Ra">>]
    ELSE IF rule.action.kind = "ToLobe"
    THEN [st |-> log_event([st EXCEPT !.lobes = Append(st.lobes, input)],
                           PhaseRuleToLobe, "Lobe", input),
          ret |-> <<"Lobe">>]
    ELSE IF rule.action.kind = "ToSink"
    THEN [st |-> log_event([st EXCEPT !.sink = Append(st.sink, input)],
                           PhaseRuleToSink, "Sink", input),
          ret |-> <<"Sink">>]
    ELSE LET rewritten == apply_subst(rule.action.template[1], subst)
             r == structural_classify(st, rewritten)
         IN  [st |-> log_event(r.st, PhaseRuleRewrite, r.route, rewritten),
              ret |-> <<r.route>>]

RECURSIVE apply_program_rules_from(_, _, _, _)
\* The for loop over self.program.rules, from rule i on (engine.rs 127-165).
apply_program_rules_from(rules, st, input, i) ==
    IF i > Len(rules) THEN [st |-> st, ret |-> <<>>]
    ELSE LET m == match_with_vars(rules[i].pattern, input, EmptyMap)
         IN  IF ~m.ok THEN apply_program_rules_from(rules, st, input, i + 1)
             ELSE fire_rule(st, rules[i], input, m.subst)

apply_program_rules(rules, st, input) ==
    apply_program_rules_from(rules, st, input, 1)

\* process_input without the structural fallback.
process_input_no_fallback(rules, st, input) ==
    apply_program_rules(rules, st, input)

process_input(rules, st, input) ==
    LET r == apply_program_rules(rules, st, input)
    IN  IF r.ret # <<>> THEN r
        ELSE LET f == structural_classify(st, input)
             IN  [st |-> f.st, ret |-> <<f.route>>]

(***************************************************************************)
(* The rule engine as a state machine: Engine::new(program) over a fresh   *)
(* RCXState, then any sequence of Engine::process_input calls.  call is    *)
(* the last call made: its name, its arguments, the state it started from  *)
(* and what it returned; call.n counts the calls.                          *)
(***************************************************************************)
MaxRules == 2

MaxCalls == 3

S(n) == Sym(n)

N2(a, b) == Node(<<a, b>>)

\* Rules in the style of the tests and examples (engine_roundtrip.rs,
\* engine_wildcards.rs), with shadowing, wildcards and $variables.
RuleSet ==
    { RcxRule(N2(S(NEWS), S(STABLE)), ToRa),
      RcxRule(N2(S(NEWS), S(WILD)), ToSink),
      RcxRule(S(PING), Rewrite(S(PONG))),
      RcxRule(N2(S(DX), S(DX)), ToLobe),
      RcxRule(N2(S(DX), S(DY)), Rewrite(N2(S(NEWS), S(DY)))),
      RcxRule(S(DX), Rewrite(Node(<<S(DX), S(DX), S(DY)>>))) }

RECURSIVE SeqsUpTo(_, _)
SeqsUpTo(set, n) ==
    IF n = 0 THEN {<<>>}
    ELSE LET shorter == SeqsUpTo(set, n - 1)
         IN  shorter \cup {Append(q, e) : q \in shorter, e \in set}

Programs == SeqsUpTo(RuleSet, MaxRules)

Inputs ==
    { S(PING),
      N2(S(NEWS), S(STABLE)),
      N2(S(NEWS), S(PING)),
      N2(S(STABLE), S(STABLE)),
      N2(S(PING), S(STABLE)),
      N2(Node(<<S(PING)>>), Node(<<S(PING)>>)) }

CurState ==
    [current |-> current, ra |-> ra, lobes |-> lobes, sink |-> sink,
     null_reg |-> null_reg, inf_reg |-> inf_reg, trace |-> trace,
     step_counter |-> step_counter]

SetState(st) ==
    /\ current' = st.current
    /\ ra' = st.ra
    /\ lobes' = st.lobes
    /\ sink' = st.sink
    /\ null_reg' = st.null_reg
    /\ inf_reg' = st.inf_reg
    /\ trace' = st.trace
    /\ step_counter' = st.step_counter

NoCall == [op |-> "new", n |-> 0, args |-> <<>>, pre |-> NewState, ret |-> <<>>]

FreshState ==
    /\ current = NewState.current
    /\ ra = NewState.ra
    /\ lobes = NewState.lobes
    /\ sink = NewState.sink
    /\ null_reg = NewState.null_reg
    /\ inf_reg = NewState.inf_reg
    /\ trace = NewState.trace
    /\ step_counter = NewState.step_counter
    /\ call = NoCall

Init == program \in Programs /\ FreshState

ProcessInput(input) ==
    /\ call.n < MaxCalls
    /\ LET r == process_input(program, CurState, input)
       IN  /\ SetState(r.st)
           /\ call' = [op |-> "process_input", n |-> call.n + 1,
                       args |-> <<input>>, pre |-> CurState, ret |-> r.ret]
    /\ UNCHANGED program

Next == \E input \in Inputs : ProcessInput(input)

Spec == Init /\ [][Next]_vars

(***************************************************************************)
(* Claims about Engine::process_input, checked under Spec.                 *)
(***************************************************************************)
IsProcessInput == call.op = "process_input"

Bucket(st, route) ==
    IF route = "Ra" THEN st.ra ELSE IF route = "Lobe" THEN st.lobes ELSE st.sink

Buckets == {"Ra", "Lobe", "Sink"}

\* Bucket `route` of the current state is that of the state before the call
\* with mu appended, and the other two buckets are as before the call.
AppendedOnlyTo(route, mu) ==
    /\ Bucket(CurState, route) = Append(Bucket(call.pre, route), mu)
    /\ \A other \in Buckets \ {route} :
           Bucket(CurState, other) = Bucket(call.pre, other)

\* The rules of the program whose pattern matches the input of the call.
Matching(input) ==
    {i \in 1..Len(program) :
        match_with_vars(program[i].pattern, input, EmptyMap).ok}

First(set) == CHOOSE i \in set : \A j \in set : i <= j

LastEvent == trace[Len(trace)]

\* C1: every call to process_input appends exactly one trace event and
\* increases step_counter by exactly one, on every path, the Rewrite path
\* included.
C1_OneEventPerCall ==
    IsProcessInput =>
        /\ Len(trace) = Len(call.pre.trace) + 1
        /\ step_counter = call.pre.step_counter + 1

\* C2: every call to process_input makes exactly one of ra, lobes, sink
\* longer by one entry appended at the end and leaves the other two and the
\* earlier entries unchanged; after k calls on a fresh state the three
\* lengths add up to k.
C2_OneBucketGrows ==
    /\ IsProcessInput =>
           \E route \in Buckets :
               /\ Len(Bucket(CurState, route)) = Len(Bucket(call.pre, route)) + 1
               /\ AppendedOnlyTo(route, Bucket(CurState, route)[Len(Bucket(CurState, route))])
    /\ Len(ra) + Len(lobes) + Len(sink) = call.n

C2_Witness ==
    /\ IsProcessInput
    /\ call.n = 3
    /\ Len(ra) = 1 /\ Len(lobes) = 1 /\ Len(sink) = 1

\* C4: process_input applies the first rule in program order whose pattern
\* matches the input, and only that rule: the state it leaves and the route
\* it returns are those of the program made of that rule alone.
C4_FirstMatchWins ==
    (IsProcessInput /\ Matching(call.args[1]) # {}) =>
        LET i == First(Matching(call.args[1]))
            alone == process_input(<<program[i]>>, call.pre, call.args[1])
        IN  /\ CurState = alone.st
            /\ call.ret = alone.ret

\* Two rules match, and the later one alone would have left another state.
C4_Witness ==
    /\ IsProcessInput
    /\ \E i, j \in Matching(call.args[1]) :
           /\ i < j
           /\ program[i].action.kind # program[j].action.kind
           /\ process_input(<<program[j]>>, call.pre, call.args[1]).st # CurState

\* The first matching rule of the call is a Rewrite rule.
FirstIsRewrite ==
    /\ IsProcessInput
    /\ Matching(call.args[1]) # {}
    /\ program[First(Matching(call.args[1]))].action.kind = "Rewrite"

\* The template of the first matching rule, instantiated with the bindings
\* of that match.
Rewritten ==
    LET rule == program[First(Matching(call.args[1]))]
    IN  apply_subst(rule.action.template[1],
                    match_with_vars(rule.pattern, call.args[1], EmptyMap).subst)

\* C5: when the first matching rule is Rewrite(template), the rewritten term
\* (never the input) is appended to the bucket the structural classifier
\* gives the rewritten term, that bucket is the returned route, and the
\* rewritten term is not matched against the rules again.
C5_RewriteClassifiesRewritten ==
    FirstIsRewrite =>
        /\ AppendedOnlyTo(classify(Rewritten), Rewritten)
        /\ call.ret = <<classify(Rewritten)>>

\* The match bound a variable, the rewritten term differs from the input,
\* and a ToBucket rule of the program matches the rewritten term and names
\* another bucket than the classifier does.
C5_Witness ==
    /\ FirstIsRewrite
    /\ Rewritten # call.args[1]
    /\ classify(Rewritten) # classify(call.args[1])
    /\ LET rule == program[First(Matching(call.args[1]))]
       IN  DOMAIN match_with_vars(rule.pattern, call.args[1], EmptyMap).subst # {}
    /\ \E j \in Matching(Rewritten) :
           /\ program[j].action.kind = "ToRa"
           /\ classify(Rewritten) = "Sink"
           /\ Len(sink) = Len(call.pre.sink) + 1

RouteOfAction(kind) ==
    IF kind = "ToRa" THEN "Ra" ELSE IF kind = "ToLobe" THEN "Lobe" ELSE "Sink"

FirstIsToBucket ==
    /\ IsProcessInput
    /\ Matching(call.args[1]) # {}
    /\ program[First(Matching(call.args[1]))].action.kind # "Rewrite"

\* C6: when the first matching rule is a ToBucket rule for bucket B, the
\* input is appended unmodified to B, the event logged has route B and the
\* input as payload, and B is returned, whatever the structural classifier
\* would say of the input.
C6_ToBucketRoutesInput ==
    FirstIsToBucket =>
        LET b == RouteOfAction(program[First(Matching(call.args[1]))].action.kind)
        IN  /\ AppendedOnlyTo(b, call.args[1])
            /\ Len(trace) = Len(call.pre.trace) + 1
            /\ LastEvent.route = b
            /\ LastEvent.payload = call.args[1]
            /\ call.ret = <<b>>

\* [NEWS,STABLE] is sent to ra by a rule although it classifies as Sink.
C6_Witness ==
    /\ FirstIsToBucket
    /\ call.args[1] = N2(S(NEWS), S(STABLE))
    /\ call.ret = <<"Ra">>
    /\ classify(call.args[1]) = "Sink"

\* C7: when no rule matches, the input is appended unmodified to the bucket
\* classify(input), the event logged has the input as payload and that
\* bucket as route, and that bucket is returned (Some, never None).
C7_FallbackClassifiesInput ==
    (IsProcessInput /\ Matching(call.args[1]) = {}) =>
        LET b == classify(call.args[1])
        IN  /\ AppendedOnlyTo(b, call.args[1])
            /\ Len(trace) = Len(call.pre.trace) + 1
            /\ LastEvent.route = b
            /\ LastEvent.payload = call.args[1]
            /\ call.ret = <<b>>

\* A program with rules none of which matches the input.
C7_Witness ==
    /\ IsProcessInput
    /\ Len(program) = 2
    /\ Matching(call.args[1]) = {}
    /\ call.ret = <<"Lobe">>

(***************************************************************************)
(* traits::classify as a function of its argument: SpecClassify draws a    *)
(* term and applies classify to it once.                                   *)
(***************************************************************************)
MaxArity == 3

ClassifyKids ==
    { S(UNSTABLE), S(PARADOX), S(NameA), S(NameB),
      Node(<<>>), Node(<<S(NameA)>>), N2(S(NameA), S(NameA)) }

ClassifyTerms ==
    {S(UNSTABLE), S(PARADOX), S(NameA), S(NameB)}
        \cup {Node(q) : q \in SeqsUpTo(ClassifyKids, MaxArity)}

\* A call of a pure function about to be made on args.
Pending(op, args) ==
    [op |-> op, n |-> 0, args |-> args, pre |-> NewState, ret |-> <<>>]

InitPure(c) ==
    /\ program = <<>>
    /\ current = NewState.current
    /\ ra = NewState.ra
    /\ lobes = NewState.lobes
    /\ sink = NewState.sink
    /\ null_reg = NewState.null_reg
    /\ inf_reg = NewState.inf_reg
    /\ trace = NewState.trace
    /\ step_counter = NewState.step_counter
    /\ call = c

Returned(op) == call.op = op /\ call.n = 1

InitClassify == \E mu \in ClassifyTerms : InitPure(Pending("classify", <<mu>>))

Classify ==
    /\ call.op = "classify" /\ call.n = 0
    /\ call' = [call EXCEPT !.n = 1, !.ret = <<classify(call.args[1])>>]
    /\ UNCHANGED <<program, state_vars>>

SpecClassify == InitClassify /\ [][Classify]_vars

\* The classifier as the specification words it.
ClassifyRef(mu) ==
    IF mu.tag = "Node" /\ Len(mu.kids) >= 1 /\ mu.kids[1] = S(UNSTABLE)
    THEN "Lobe"
    ELSE IF mu.tag = "Node" /\ Len(mu.kids) >= 1 /\ mu.kids[1] = S(PARADOX)
    THEN "Sink"
    ELSE IF mu.tag = "Sym" THEN "Ra"
    ELSE IF Len(mu.kids) \in {0, 1} THEN "Lobe"
    ELSE IF \E i \in 1..Len(mu.kids) : mu.kids[i].tag = "Node" THEN "Sink"
    ELSE IF \A i, j \in 1..Len(mu.kids) : mu.kids[i].name = mu.kids[j].name
    THEN "Lobe"
    ELSE "Sink"

\* C8: classify returns, for every term, one of Ra, Lobe, Sink, and it is
\* the bucket of the reference: the UNSTABLE and PARADOX heads first, then
\* Sym -> Ra, arity 0 or 1 -> Lobe, arity >= 2 with a Node child -> Sink,
\* arity >= 2 of Syms -> Lobe when all names are equal and Sink otherwise.
C8_ClassifyIsReference ==
    Returned("classify") =>
        /\ call.ret = <<ClassifyRef(call.args[1])>>
        /\ call.ret[1] \in Buckets
        /\ call.args[1] = Node(<<S(PARADOX)>>) => call.ret = <<"Sink">>
        /\ call.args[1] = N2(S(PARADOX), S(PARADOX)) => call.ret = <<"Sink">>
        /\ call.args[1] = N2(S(UNSTABLE), S(NameA)) => call.ret = <<"Lobe">>

\* An override head decides against the structural rule: [PARADOX,PARADOX]
\* is two equal Syms and goes to Sink.
C8_Witness ==
    /\ Returned("classify")
    /\ call.args[1] = N2(S(PARADOX), S(PARADOX))
    /\ call.ret = <<"Sink">>

(***************************************************************************)
(* engine::match_with_vars as a function of (pattern, value), from an      *)
(* empty HashMap: SpecMatch draws a pair and applies the matcher once.     *)
(***************************************************************************)
MaxMatchArity == 2

PatKids ==
    { S(WILD), S(DX), S(DY), S(NameA),
      Node(<<S(DX)>>), N2(S(NameA), S(WILD)) }

MatchPatterns ==
    {S(WILD), S(DX), S(NameA)}
        \cup {Node(q) : q \in SeqsUpTo(PatKids, MaxMatchArity)}

ValKids ==
    { S(NameA), S(NameB), Node(<<>>), Node(<<S(NameA)>>),
      N2(S(NameA), S(NameB)) }

MatchValues ==
    {S(NameA), S(NameB)}
        \cup {Node(q) : q \in SeqsUpTo(ValKids, MaxMatchArity)}

InitMatch ==
    \E p \in MatchPatterns, v \in MatchValues :
        InitPure(Pending("match_with_vars", <<p, v>>))

MatchWithVars ==
    /\ call.op = "match_with_vars" /\ call.n = 0
    /\ call' = [call EXCEPT
                   !.n = 1,
                   !.ret = match_with_vars(call.args[1], call.args[2], EmptyMap)]
    /\ UNCHANGED <<program, state_vars>>

SpecMatch == InitMatch /\ [][MatchWithVars]_vars

IsBinder(p) == p.tag = "Sym" /\ p.name # <<"_">> /\ p.name # <<>> /\ Head(p.name) = "$"

RECURSIVE ShapeMatches(_, _)
\* The pattern fits the value position by position, each binder and each
\* `_` taken as fitting anything.
ShapeMatches(p, v) ==
    IF p.tag = "Sym"
    THEN p.name = <<"_">> \/ IsBinder(p) \/ (v.tag = "Sym" /\ v.name = p.name)
    ELSE /\ v.tag = "Node"
         /\ Len(v.kids) = Len(p.kids)
         /\ \A i \in 1..Len(p.kids) : ShapeMatches(p.kids[i], v.kids[i])

RECURSIVE Occurrences(_, _)
\* The pairs <<name, term>> of a binder $name of p and the term of v at its
\* place, for a pattern that fits the value.
Occurrences(p, v) ==
    IF p.tag = "Sym"
    THEN IF IsBinder(p) THEN {<<Tail(p.name), v>>} ELSE {}
    ELSE UNION {Occurrences(p.kids[i], v.kids[i]) : i \in 1..Len(p.kids)}

MatchRef(p, v) ==
    /\ ShapeMatches(p, v)
    /\ \A a, b \in Occurrences(p, v) : a[1] = b[1] => a[2] = b[2]

BindingsRef(p, v) ==
    [n \in {a[1] : a \in Occurrences(p, v)} |->
        (CHOOSE a \in Occurrences(p, v) : a[1] = n)[2]]

\* C9: match_with_vars succeeds exactly when `_` stands for any term and
\* binds nothing, a $name stands for any term on its first occurrence and
\* for an equal term on a repeated one, any other Sym stands for itself, and
\* a Node stands for a Node of the same arity matched child by child; a
\* successful match binds each $name to the term at its place; every other
\* case is a failed match, with a result all the same.
C9_MatchIsReference ==
    Returned("match_with_vars") =>
        /\ call.ret.ok \in BOOLEAN
        /\ call.ret.ok = MatchRef(call.args[1], call.args[2])
        /\ call.ret.ok => call.ret.subst = BindingsRef(call.args[1], call.args[2])

\* A repeated $x against two different terms: the match fails.
C9_Witness ==
    /\ Returned("match_with_vars")
    /\ call.args[1] = N2(S(DX), S(DX))
    /\ call.args[2] = N2(S(NameA), S(NameB))
    /\ call.ret.ok = FALSE

\* A wildcard and a repeated $x that agree: the match succeeds, x is bound
\* and `_` is not.
C9_WitnessBound ==
    /\ Returned("match_with_vars")
    /\ call.args[1] = N2(Node(<<S(DX)>>), S(DX))
    /\ call.args[2] = N2(Node(<<S(NameA)>>), S(NameA))
    /\ call.ret.ok
    /\ DOMAIN call.ret.subst = {<<"x">>}

(***************************************************************************)
(* Template instantiation, engine::apply_subst and                         *)
(* matching::substitute_template, as functions of (template, env):         *)
(* SpecSubst draws the function, a template and an environment.            *)
(***************************************************************************)
MaxTemplateArity == 2

TemplateAtoms == {S(NameA), S(DX), S(DY), S(LowerX), S(LowerY)}

TemplateKids == TemplateAtoms \cup {Node(<<S(DX)>>), Node(<<S(LowerX)>>)}

Templates ==
    TemplateAtoms \cup {Node(q) : q \in SeqsUpTo(TemplateKids, MaxTemplateArity)}

\* Bound terms, some of them made of variable-like symbols.
EnvTerms == {S(NameA), S(DY), S(LowerY), N2(S(DX), S(LowerX))}

Envs ==
    UNION {[d -> EnvTerms] : d \in SUBSET {LowerX, LowerY}}

InitSubst ==
    \E op \in {"apply_subst", "substitute_template"}, t \in Templates, e \in Envs :
        InitPure(Pending(op, <<t, e>>))

ApplySubst ==
    /\ call.op = "apply_subst" /\ call.n = 0
    /\ call' = [call EXCEPT !.n = 1,
                            !.ret = apply_subst(call.args[1], call.args[2])]
    /\ UNCHANGED <<program, state_vars>>

SubstituteTemplate ==
    /\ call.op = "substitute_template" /\ call.n = 0
    /\ call' = [call EXCEPT !.n = 1,
                            !.ret = substitute_template(call.args[1], call.args[2])]
    /\ UNCHANGED <<program, state_vars>>

NextSubst == ApplySubst \/ SubstituteTemplate

SpecSubst == InitSubst /\ [][NextSubst]_vars

\* The environment key a symbol name stands for under each convention:
\* <<key>> for a variable, <<>> for a literal.
KeyOf(op, name) ==
    IF op = "apply_subst"
    THEN IF name # <<>> /\ Head(name) = "$" THEN <<Tail(name)>> ELSE <<>>
    ELSE IF name \in {<<c>> : c \in LowerLetters} THEN <<name>> ELSE <<>>

RECURSIVE InstanceOf(_, _, _, _)
\* r is t with each bound variable replaced, once, by its bound term and
\* everything else as in t.
InstanceOf(op, t, env, r) ==
    IF t.tag = "Sym"
    THEN LET k == KeyOf(op, t.name)
         IN  IF k # <<>> /\ k[1] \in DOMAIN env THEN r = env[k[1]] ELSE r = t
    ELSE /\ r.tag = "Node"
         /\ Len(r.kids) = Len(t.kids)
         /\ \A i \in 1..Len(t.kids) : InstanceOf(op, t.kids[i], env, r.kids[i])

\* C10: apply_subst and substitute_template return the template with every
\* occurrence of a bound variable replaced by its bound term, inserted as it
\* is and not substituted again, and with unbound variables and literals
\* unchanged; with an empty environment they return the template.
C10_InstantiationIsSinglePass ==
    (Returned("apply_subst") \/ Returned("substitute_template")) =>
        /\ InstanceOf(call.op, call.args[1], call.args[2], call.ret)
        /\ call.args[2] = EmptyMap => call.ret = call.args[1]

\* x is bound to $y and y to A: [$x] below a Node becomes [$y], not [A],
\* and the unbound literal x stays.
C10_Witness ==
    /\ Returned("apply_subst")
    /\ call.args[1] = N2(Node(<<S(DX)>>), S(LowerX))
    /\ call.args[2] = [n \in {LowerX, LowerY} |-> IF n = LowerX THEN S(DY) ELSE S(NameA)]
    /\ call.ret = N2(Node(<<S(DY)>>), S(LowerX))

(***************************************************************************)
(* Text: Rust string operations on sequences of characters.                *)
(***************************************************************************)
\* A value computed once and then used, as the value of a Rust let binding
\* is: In is applied to the one element of {v}.
Once(v, In(_)) == CHOOSE y \in {In(x) : x \in {v}} : TRUE

Whitespace == {" ", "\t", "\n", "\r"}

RECURSIVE trim_start(_)
trim_start(s) ==
    IF s # <<>> /\ Head(s) \in Whitespace THEN trim_start(Tail(s)) ELSE s

RECURSIVE trim_end(_)
trim_end(s) ==
    IF s # <<>> /\ s[Len(s)] \in Whitespace
    THEN trim_end(SubSeq(s, 1, Len(s) - 1))
    ELSE s

trim(s) == trim_end(trim_start(s))

starts_with(s, p) == Len(s) >= Len(p) /\ SubSeq(s, 1, Len(p)) = p

ends_with(s, p) == Len(s) >= Len(p) /\ SubSeq(s, Len(s) - Len(p) + 1, Len(s)) = p

\* str::find: the index (from 1) of the first occurrence of pat, 0 for None.
find(s, pat) ==
    LET at == {i \in 1..(Len(s) - Len(pat) + 1) : SubSeq(s, i, i + Len(pat) - 1) = pat}
    IN  IF at = {} THEN 0 ELSE CHOOSE i \in at : \A j \in at : i <= j

\* s[i..] with i counted from 1.
from(s, i) == SubSeq(s, i, Len(s))

RECURSIVE split(_, _)
\* str::split(pat).collect()
split(s, pat) ==
    LET i == find(s, pat)
    IN  IF i = 0 THEN <<s>>
        ELSE <<SubSeq(s, 1, i - 1)>> \o split(from(s, i + Len(pat)), pat)

UpperLetters == <<"A", "B", "C", "D", "E", "F", "G", "H", "I", "J", "K", "L", "M", "N", "O", "P", "Q", "R", "S", "T", "U", "V", "W", "X", "Y", "Z">>

LowerAlphabet == <<"a", "b", "c", "d", "e", "f", "g", "h", "i", "j", "k", "l", "m", "n", "o", "p", "q", "r", "s", "t", "u", "v", "w", "x", "y", "z">>

to_lowercase(s) ==
    [i \in 1..Len(s) |->
        IF \E k \in 1..Len(UpperLetters) : UpperLetters[k] = s[i]
        THEN LowerAlphabet[CHOOSE k \in 1..Len(UpperLetters) : UpperLetters[k] = s[i]]
        ELSE s[i]]

RECURSIVE join(_, _)
\* [String]::join(sep)
join(strs, sep) ==
    IF strs = <<>> THEN <<>>
    ELSE IF Len(strs) = 1 THEN strs[1]
    ELSE strs[1] \o sep \o join(Tail(strs), sep)

Digits == <<"0", "1", "2", "3", "4", "5", "6", "7", "8", "9">>

RECURSIVE format_uint(_)
\* format!("{}", n) of an unsigned integer
format_uint(n) ==
    IF n < 10 THEN <<Digits[n + 1]>>
    ELSE format_uint(n \div 10) \o <<Digits[(n % 10) + 1]>>

is_ascii_digit(c) == \E k \in 1..10 : Digits[k] = c

digit_value(c) == (CHOOSE k \in 1..10 : Digits[k] = c) - 1

RECURSIVE parse_uint(_, _)
\* str::parse::<u64> of a string of digits, most significant first.
parse_uint(s, acc) ==
    IF s = <<>> THEN acc ELSE parse_uint(Tail(s), acc * 10 + digit_value(Head(s)))

(***************************************************************************)
(* formatter.rs: mu_to_string                                              *)
(***************************************************************************)
RECURSIVE mu_to_string(_)
mu_to_string(mu) ==
    IF mu.tag = "Sym" THEN mu.name
    ELSE <<"[">>
         \o join([i \in 1..Len(mu.kids) |-> mu_to_string(mu.kids[i])], <<",">>)
         \o <<"]">>

(***************************************************************************)
(* parser.rs: parse_mu, parse_term, parse_list, split_top_level_commas.    *)
(* A Result<Mu, String> is [ok, mu]; the error text is left out.           *)
(***************************************************************************)
ErrMu == [ok |-> FALSE, mu |-> Sym(<<>>)]

OkMu(mu) == [ok |-> TRUE, mu |-> mu]

\* The body of the for loop of split_top_level_commas on character ch. st is
\* [out, buf, depth, failed]; failed is the early return of Err.
split_step(st, ch) ==
    CASE st.failed -> st
      [] ~st.failed /\ ch = "[" ->
            [st EXCEPT !.depth = @ + 1, !.buf = Append(@, ch)]
      [] ~st.failed /\ ch = "]" /\ st.depth - 1 < 0 -> [st EXCEPT !.failed = TRUE]
      [] ~st.failed /\ ch = "]" /\ st.depth - 1 >= 0 ->
            [st EXCEPT !.depth = @ - 1, !.buf = Append(@, ch)]
      [] ~st.failed /\ ch = "," /\ st.depth = 0 ->
            [st EXCEPT !.out = Append(@, trim(st.buf)), !.buf = <<>>]
      [] OTHER -> [st EXCEPT !.buf = Append(@, ch)]

RECURSIVE split_scan(_, _, _, _)
\* The for loop over the characters lo..hi of s, one half after the other.
split_scan(s, lo, hi, st) ==
    CASE lo > hi -> st
      [] lo = hi -> split_step(st, s[lo])
      [] OTHER -> Once(split_scan(s, lo, (lo + hi) \div 2, st), LAMBDA half :
                      IF half.failed THEN half
                      ELSE split_scan(s, (lo + hi) \div 2 + 1, hi, half))

split_top_level_commas(s) ==
    Once(split_scan(s, 1, Len(s),
                    [out |-> <<>>, buf |-> <<>>, depth |-> 0, failed |-> FALSE]),
         LAMBDA st :
            IF st.failed \/ st.depth # 0 THEN [ok |-> FALSE, parts |-> <<>>]
            ELSE IF trim(st.buf) # <<>>
            THEN [ok |-> TRUE, parts |-> Append(st.out, trim(st.buf))]
            ELSE [ok |-> TRUE, parts |-> st.out])

RECURSIVE parse_term(_)
RECURSIVE parse_parts(_, _, _)
\* The loop of parse_list over the parts, from part i on.
parse_parts(parts, i, children) ==
    IF i > Len(parts) THEN OkMu(Node(children))
    ELSE LET tok == trim(parts[i])
         IN  IF tok = <<>> THEN ErrMu
             ELSE LET r == parse_term(tok)
                  IN  IF ~r.ok THEN ErrMu
                      ELSE parse_parts(parts, i + 1, Append(children, r.mu))

parse_list(s) ==
    IF s = <<"[", "]">> THEN ErrMu
    ELSE LET inner == trim(SubSeq(s, 2, Len(s) - 1))
         IN  IF inner = <<>> THEN ErrMu
             ELSE LET parts == split_top_level_commas(inner)
                  IN  IF ~parts.ok THEN ErrMu
                      ELSE parse_parts(parts.parts, 1, <<>>)

parse_term(s0) ==
    LET s == trim(s0)
    IN  IF s = <<>> THEN ErrMu
        ELSE IF starts_with(s, <<"[">>)
        THEN IF ~ends_with(s, <<"]">>) THEN ErrMu ELSE parse_list(s)
        ELSE OkMu(Sym(s))

parse_mu(input) ==
    LET s == trim(input)
    IN  IF s = <<>> THEN ErrMu ELSE parse_term(s)

(***************************************************************************)
(* snapshot_json.rs: the text it writes and reads.                         *)
(***************************************************************************)
SNAPSHOT_SCHEMA_V1 == <<"r", "c", "x", ".", "s", "n", "a", "p", "s", "h", "o", "t", ".", "v", "1">>

WorldName == <<"r", "c", "x", "_", "c", "o", "r", "e">>

TxtNull == <<"n", "u", "l", "l">>

TxtArrow == <<"-", ">">>

TxtRewriteSp == <<"r", "e", "w", "r", "i", "t", "e", " ">>

TxtRa == <<"r", "a">>

TxtLobe == <<"l", "o", "b", "e">>

TxtLobes == <<"l", "o", "b", "e", "s">>

TxtSink == <<"s", "i", "n", "k">>

TxtRewrite == <<"r", "e", "w", "r", "i", "t", "e">>

TxtStructural == <<"s", "t", "r", "u", "c", "t", "u", "r", "a", "l">>

TxtToRa == <<" ", "-", ">", " ", "r", "a">>

TxtToLobe == <<" ", "-", ">", " ", "l", "o", "b", "e">>

TxtToSink == <<" ", "-", ">", " ", "s", "i", "n", "k">>

TxtToRewrite == <<" ", "-", ">", " ", "r", "e", "w", "r", "i", "t", "e", " ">>

KeyRules == <<"r", "u", "l", "e", "s">>

KeyCurrent == <<"c", "u", "r", "r", "e", "n", "t">>

KeyNullReg == <<"n", "u", "l", "l", "_", "r", "e", "g">>

KeyInfReg == <<"i", "n", "f", "_", "r", "e", "g">>

KeyStepCounter == <<"s", "t", "e", "p", "_", "c", "o", "u", "n", "t", "e", "r">>

JsonSchema == <<"{", "\"", "s", "c", "h", "e", "m", "a", "\"", ":">>

JsonWorld == <<"\"", "w", "o", "r", "l", "d", "\"", ":">>

JsonRules == <<"\"", "p", "r", "o", "g", "r", "a", "m", "\"", ":", "{", "\"", "r", "u", "l", "e", "s", "\"", ":", "[">>

JsonRulesEnd == <<"]", "}", ",">>

JsonCurrent == <<"\"", "s", "t", "a", "t", "e", "\"", ":", "{", "\"", "c", "u", "r", "r", "e", "n", "t", "\"", ":">>

JsonRaArr == <<",", "\"", "r", "a", "\"", ":", "[">>

JsonLobesArr == <<"]", ",", "\"", "l", "o", "b", "e", "s", "\"", ":", "[">>

JsonSinkArr == <<"]", ",", "\"", "s", "i", "n", "k", "\"", ":", "[">>

JsonArrEnd == <<"]", ",">>

JsonStepCounter == <<"\"", "s", "t", "e", "p", "_", "c", "o", "u", "n", "t", "e", "r", "\"", ":">>

JsonNullReg == <<"\"", "n", "u", "l", "l", "_", "r", "e", "g", "\"", ":", "[">>

JsonInfReg == <<"]", ",", "\"", "i", "n", "f", "_", "r", "e", "g", "\"", ":", "[">>

JsonTrace == <<"\"", "t", "r", "a", "c", "e", "\"", ":", "[">>

JsonEnd == <<"]", "}", "}">>

JsonStep == <<"{", "\"", "s", "t", "e", "p", "\"", ":">>

JsonPhase == <<"\"", "p", "h", "a", "s", "e", "\"", ":">>

JsonRoute == <<"\"", "r", "o", "u", "t", "e", "\"", ":">>

JsonPayload == <<"\"", "p", "a", "y", "l", "o", "a", "d", "\"", ":">>

\* The arm of the match in json_escape for character ch (control characters
\* other than \n, \r, \t are outside the alphabet of the model).
json_escape_char(ch) ==
    CASE ch = "\"" -> <<"\\", "\"">>
      [] ch = "\\" -> <<"\\", "\\">>
      [] ch = "\n" -> <<"\\", "n">>
      [] ch = "\r" -> <<"\\", "r">>
      [] ch = "\t" -> <<"\\", "t">>
      [] OTHER -> <<ch>>

RECURSIVE json_escape_range(_, _, _)
\* What the for loop pushes for the characters lo..hi of s.
json_escape_range(s, lo, hi) ==
    CASE lo > hi -> <<>>
      [] lo = hi -> json_escape_char(s[lo])
      [] OTHER -> json_escape_range(s, lo, (lo + hi) \div 2)
                  \o json_escape_range(s, (lo + hi) \div 2 + 1, hi)

json_escape_chars(s) == json_escape_range(s, 1, Len(s))

json_escape(s) == <<"\"">> \o json_escape_chars(s) \o <<"\"">>

rule_to_string(rule) ==
    LET pat == mu_to_string(rule.pattern)
    IN  IF rule.action.kind = "ToRa" THEN pat \o TxtToRa
        ELSE IF rule.action.kind = "ToLobe" THEN pat \o TxtToLobe
        ELSE IF rule.action.kind = "ToSink" THEN pat \o TxtToSink
        ELSE pat \o TxtToRewrite \o mu_to_string(rule.action.template[1])

\* format!("{:?}", route).to_lowercase()
route_debug_lower(route) ==
    IF route = "Ra" THEN TxtRa
    ELSE IF route = "Lobe" THEN TxtLobe
    ELSE IF route = "Sink" THEN TxtSink
    ELSE IF route = "Rewrite" THEN TxtRewrite
    ELSE TxtStructural

\* The elements of a bucket, escaped and separated by commas.
json_mu_list(bucket) ==
    join([i \in 1..Len(bucket) |-> json_escape(mu_to_string(bucket[i]))], <<",">>)

json_trace_event(evt) ==
    JsonStep \o format_uint(evt.step_index) \o <<",">>
    \o JsonPhase \o json_escape(evt.phase) \o <<",">>
    \o JsonRoute \o json_escape(route_debug_lower(evt.route)) \o <<",">>
    \o JsonPayload \o json_escape(mu_to_string(evt.payload)) \o <<"}">>

snapshot_to_json(world_name, rules, st) ==
    JsonSchema \o json_escape(SNAPSHOT_SCHEMA_V1) \o <<",">>
    \o JsonWorld \o json_escape(world_name) \o <<",">>
    \o JsonRules
    \o join([i \in 1..Len(rules) |-> json_escape(rule_to_string(rules[i]))], <<",">>)
    \o JsonRulesEnd
    \o JsonCurrent
    \o (IF st.current # <<>> THEN json_escape(mu_to_string(st.current[1])) ELSE TxtNull)
    \o JsonRaArr \o json_mu_list(st.ra)
    \o JsonLobesArr \o json_mu_list(st.lobes)
    \o JsonSinkArr \o json_mu_list(st.sink)
    \o JsonArrEnd
    \o JsonStepCounter \o format_uint(st.step_counter) \o <<",">>
    \o JsonNullReg \o json_mu_list(st.null_reg)
    \o JsonInfReg \o json_mu_list(st.inf_reg)
    \o JsonArrEnd
    \o JsonTrace
    \o join([i \in 1..Len(st.trace) |-> json_trace_event(st.trace[i])], <<",">>)
    \o JsonEnd

\* The character an escape sequence \c stands for in the extractors.
unescape(c) ==
    IF c = "n" THEN "\n" ELSE IF c = "r" THEN "\r" ELSE IF c = "t" THEN "\t" ELSE c

\* The body of the while loop of extract_array_strings on character c. st is
\* [out, cur, in_str, esc, done]; done is the break.
array_step(st, c) ==
    CASE st.done -> st
      [] ~st.done /\ ~st.in_str /\ c = "]" -> [st EXCEPT !.done = TRUE]
      [] ~st.done /\ ~st.in_str /\ c = "\"" -> [st EXCEPT !.in_str = TRUE, !.cur = <<>>]
      [] ~st.done /\ ~st.in_str /\ c # "]" /\ c # "\"" -> st
      [] ~st.done /\ st.in_str /\ st.esc ->
            [st EXCEPT !.cur = Append(@, unescape(c)), !.esc = FALSE]
      [] ~st.done /\ st.in_str /\ ~st.esc /\ c = "\\" -> [st EXCEPT !.esc = TRUE]
      [] ~st.done /\ st.in_str /\ ~st.esc /\ c = "\"" ->
            [st EXCEPT !.in_str = FALSE, !.out = Append(@, st.cur)]
      [] OTHER -> [st EXCEPT !.cur = Append(@, c)]

RECURSIVE array_scan(_, _, _, _)
\* The while loop over the characters lo..hi of json, one half after the other.
array_scan(json, lo, hi, st) ==
    CASE lo > hi -> st
      [] lo = hi -> array_step(st, json[lo])
      [] OTHER -> Once(array_scan(json, lo, (lo + hi) \div 2, st), LAMBDA half :
                      IF half.done THEN half
                      ELSE array_scan(json, (lo + hi) \div 2 + 1, hi, half))

\* Result<Vec<String>, String> as [ok, strs]
extract_array_strings(json, key) ==
    LET pat == <<"\"">> \o key \o <<"\"", ":", "[">>
        at == find(json, pat)
    IN  IF at = 0 THEN [ok |-> FALSE, strs |-> <<>>]
        ELSE [ok |-> TRUE,
              strs |-> array_scan(json, at + Len(pat), Len(json),
                                  [out |-> <<>>, cur |-> <<>>, in_str |-> FALSE,
                                   esc |-> FALSE, done |-> FALSE]).out]

\* The body of the for loop of extract_nullable_string on character ch. st
\* is [out, esc, done]; done is the return of Ok(Some(out)).
string_step(st, ch) ==
    CASE st.done -> st
      [] ~st.done /\ st.esc -> [st EXCEPT !.out = Append(@, unescape(ch)), !.esc = FALSE]
      [] ~st.done /\ ~st.esc /\ ch = "\\" -> [st EXCEPT !.esc = TRUE]
      [] ~st.done /\ ~st.esc /\ ch = "\"" -> [st EXCEPT !.done = TRUE]
      [] OTHER -> [st EXCEPT !.out = Append(@, ch)]

RECURSIVE string_scan(_, _, _, _)
\* The for loop over the characters lo..hi of rest, one half after the other.
string_scan(rest, lo, hi, st) ==
    CASE lo > hi -> st
      [] lo = hi -> string_step(st, rest[lo])
      [] OTHER -> Once(string_scan(rest, lo, (lo + hi) \div 2, st), LAMBDA half :
                      IF half.done THEN half
                      ELSE string_scan(rest, (lo + hi) \div 2 + 1, hi, half))

\* Result<Option<String>, String> as [ok, opt]
extract_nullable_string(json, key) ==
    LET pat == <<"\"">> \o key \o <<"\"", ":">>
        at == find(json, pat)
    IN  IF at = 0 THEN [ok |-> FALSE, opt |-> <<>>]
        ELSE LET rest == trim_start(from(json, at + Len(pat)))
             IN  IF starts_with(rest, TxtNull) THEN [ok |-> TRUE, opt |-> <<>>]
                 ELSE IF ~starts_with(rest, <<"\"">>) THEN [ok |-> FALSE, opt |-> <<>>]
                 ELSE Once(string_scan(rest, 2, Len(rest),
                                       [out |-> <<>>, esc |-> FALSE, done |-> FALSE]),
                           LAMBDA st :
                              IF st.done THEN [ok |-> TRUE, opt |-> <<st.out>>]
                              ELSE [ok |-> FALSE, opt |-> <<>>])

RECURSIVE leading_digits(_)
leading_digits(s) ==
    IF s # <<>> /\ is_ascii_digit(Head(s)) THEN <<Head(s)>> \o leading_digits(Tail(s))
    ELSE <<>>

\* Result<u64, String> as [ok, n]
extract_u64(json, key) ==
    LET pat == <<"\"">> \o key \o <<"\"", ":">>
        at == find(json, pat)
    IN  IF at = 0 THEN [ok |-> FALSE, n |-> 0]
        ELSE LET n == leading_digits(trim_start(from(json, at + Len(pat))))
             IN  IF n = <<>> THEN [ok |-> FALSE, n |-> 0]
                 ELSE [ok |-> TRUE, n |-> parse_uint(n, 0)]

\* Result<RcxRule, String> as [ok, rule]
ErrRule == [ok |-> FALSE, rule |-> RcxRule(Sym(<<>>), ToRa)]

parse_rule_line(line) ==
    LET parts == split(line, TxtArrow)
    IN  IF Len(parts) # 2 THEN ErrRule
        ELSE LET pat_src == trim(parts[1])
                 rhs_src == trim(parts[2])
                 pattern == parse_mu(pat_src)
                 rhs_lower == to_lowercase(rhs_src)
             IN  IF ~pattern.ok THEN ErrRule
                 ELSE IF starts_with(rhs_lower, TxtRewriteSp)
                 THEN LET mu == parse_mu(trim(from(rhs_src, Len(TxtRewrite) + 1)))
                      IN  IF ~mu.ok THEN ErrRule
                          ELSE [ok |-> TRUE, rule |-> RcxRule(pattern.mu, Rewrite(mu.mu))]
                 ELSE IF rhs_lower = TxtRa
                 THEN [ok |-> TRUE, rule |-> RcxRule(pattern.mu, ToRa)]
                 ELSE IF rhs_lower = TxtLobe \/ rhs_lower = TxtLobes
                 THEN [ok |-> TRUE, rule |-> RcxRule(pattern.mu, ToLobe)]
                 ELSE IF rhs_lower = TxtSink
                 THEN [ok |-> TRUE, rule |-> RcxRule(pattern.mu, ToSink)]
                 ELSE ErrRule

\* strs.into_iter().map(parse).collect::<Result<Vec<_>, _>>() as [ok, items]
parse_all_mu(strs) ==
    IF \E i \in 1..Len(strs) : ~parse_mu(strs[i]).ok
    THEN [ok |-> FALSE, items |-> <<>>]
    ELSE IF strs = <<>> THEN [ok |-> TRUE, items |-> <<>>]
    ELSE [ok |-> TRUE, items |-> [i \in 1..Len(strs) |-> parse_mu(strs[i]).mu]]

parse_all_rules(strs) ==
    IF \E i \in 1..Len(strs) : ~parse_rule_line(strs[i]).ok
    THEN [ok |-> FALSE, items |-> <<>>]
    ELSE IF strs = <<>> THEN [ok |-> TRUE, items |-> <<>>]
    ELSE [ok |-> TRUE, items |-> [i \in 1..Len(strs) |-> parse_rule_line(strs[i]).rule]]

\* Result<(String, RcxProgram, RCXState), String> as [ok, rules, st]; the
\* trace of the state it returns is empty and its step_counter is the one
\* read from the text.
snapshot_from_json(world_name, json) ==
    LET err == [ok |-> FALSE, rules |-> <<>>, st |-> NewState]
        rules_s == extract_array_strings(json, KeyRules)
        rules == parse_all_rules(rules_s.strs)
        current_s == extract_nullable_string(json, KeyCurrent)
        cur == IF current_s.opt = <<>> THEN [ok |-> TRUE, opt |-> <<>>]
               ELSE LET m == parse_mu(current_s.opt[1])
                    IN  [ok |-> m.ok, opt |-> <<m.mu>>]
        ra_s == extract_array_strings(json, TxtRa)
        lobes_s == extract_array_strings(json, TxtLobes)
        sink_s == extract_array_strings(json, TxtSink)
        null_reg_s == extract_array_strings(json, KeyNullReg)
        inf_reg_s == extract_array_strings(json, KeyInfReg)
        counter == extract_u64(json, KeyStepCounter)
        ra_p == parse_all_mu(ra_s.strs)
        lobes_p == parse_all_mu(lobes_s.strs)
        sink_p == parse_all_mu(sink_s.strs)
        null_reg_p == parse_all_mu(null_reg_s.strs)
        inf_reg_p == parse_all_mu(inf_reg_s.strs)
    IN  IF ~rules_s.ok \/ ~rules.ok THEN err
        ELSE IF ~current_s.ok \/ ~cur.ok THEN err
        ELSE IF ~ra_s.ok \/ ~lobes_s.ok \/ ~sink_s.ok \/ ~null_reg_s.ok
                \/ ~inf_reg_s.ok \/ ~counter.ok THEN err
        ELSE IF ~ra_p.ok \/ ~lobes_p.ok \/ ~sink_p.ok \/ ~null_reg_p.ok
                \/ ~inf_reg_p.ok THEN err
        ELSE [ok |-> TRUE,
              rules |-> rules.items,
              st |-> [current |-> cur.opt, ra |-> ra_p.items,
                      lobes |-> lobes_p.items, sink |-> sink_p.items,
                      null_reg |-> null_reg_p.items, inf_reg |-> inf_reg_p.items,
                      trace |-> <<>>, step_counter |-> counter.n]]

(***************************************************************************)
(* eval.rs: reduce_step; runtime.rs: step, classify_with_program           *)
(***************************************************************************)
\* Option<Mu>: a clone of state.current.
reduce_step(st) == st.current

step(st) ==
    IF reduce_step(st) = <<>> THEN st
    ELSE LET mu == reduce_step(st)[1]
             c == classify(mu)
         IN  IF c = "Ra"
             THEN log_event([st EXCEPT !.ra = Append(st.ra, mu)], PhaseStep, "Ra", mu)
             ELSE IF c = "Lobe"
             THEN log_event([st EXCEPT !.lobes = Append(st.lobes, mu)], PhaseStep, "Lobe", mu)
             ELSE log_event([st EXCEPT !.sink = Append(st.sink, mu)], PhaseStep, "Sink", mu)

\* The body of the rule loop of classify_with_program once current equals
\* the pattern of a rule with this action (runtime.rs 49-76).
cwp_fire(st, action, cur) ==
    IF action.kind = "ToRa"
    THEN [st |-> [log_event([st EXCEPT !.ra = Append(st.ra, cur)],
                            PhaseCwpRule, "Ra", cur) EXCEPT !.current = <<>>],
          ret |-> <<"Ra">>]
    ELSE IF action.kind = "ToLobe"
    THEN [st |-> [log_event([st EXCEPT !.lobes = Append(st.lobes, cur)],
                            PhaseCwpRule, "Lobe", cur) EXCEPT !.current = <<>>],
          ret |-> <<"Lobe">>]
    ELSE IF action.kind = "ToSink"
    THEN [st |-> [log_event([st EXCEPT !.sink = Append(st.sink, cur)],
                            PhaseCwpRule, "Sink", cur) EXCEPT !.current = <<>>],
          ret |-> <<"Sink">>]
    ELSE [st |-> log_event([st EXCEPT !.current = <<action.template[1]>>],
                           PhaseCwpRule, "Rewrite", cur),
          ret |-> <<"Rewrite">>]

\* The structural fallback of classify_with_program (runtime.rs 80-100).
cwp_fallback(st, cur) ==
    IF cur.tag = "Sym"
    THEN [st |-> [log_event([st EXCEPT !.ra = Append(st.ra, cur)],
                            PhaseCwpStructural, "Ra", cur) EXCEPT !.current = <<>>],
          ret |-> <<"Ra">>]
    ELSE IF \A i \in 1..Len(cur.kids) : cur.kids[i] = cur.kids[1]
    THEN [st |-> [log_event([st EXCEPT !.lobes = Append(st.lobes, cur)],
                            PhaseCwpStructural, "Lobe", cur) EXCEPT !.current = <<>>],
          ret |-> <<"Lobe">>]
    ELSE [st |-> [log_event([st EXCEPT !.sink = Append(st.sink, cur)],
                            PhaseCwpStructural, "Sink", cur) EXCEPT !.current = <<>>],
          ret |-> <<"Sink">>]

RECURSIVE cwp_rules_from(_, _, _, _)
cwp_rules_from(rules, st, cur, i) ==
    IF i > Len(rules) THEN cwp_fallback(st, cur)
    ELSE IF cur = rules[i].pattern THEN cwp_fire(st, rules[i].action, cur)
    ELSE cwp_rules_from(rules, st, cur, i + 1)

classify_with_program(st, rules) ==
    IF st.current = <<>> THEN [st |-> st, ret |-> <<>>]
    ELSE cwp_rules_from(rules, st, st.current[1], 1)

(***************************************************************************)
(* The run state under every operation that writes it: process_input,      *)
(* step, classify_with_program, a caller setting state.current, and a      *)
(* snapshot written by snapshot_to_json and read back by                   *)
(* snapshot_from_json in place of the program and the state.               *)
(***************************************************************************)
RuntimePrograms ==
    { <<>>,
      <<RcxRule(S(PING), Rewrite(S(PONG))), RcxRule(N2(S(NEWS), S(STABLE)), ToRa)>>,
      <<RcxRule(N2(S(NEWS), S(WILD)), ToSink), RcxRule(S(PONG), ToLobe)>>,
      <<RcxRule(N2(S(DX), S(DX)), Rewrite(S(DX)))>> }

RuntimeInputs == {S(PING), N2(S(NEWS), S(STABLE)), N2(S(PING), S(PING))}

Seeds == {S(PING), N2(S(NEWS), S(STABLE))}

InitRuntime == program \in RuntimePrograms /\ FreshState

Step ==
    /\ call.n < MaxCalls
    /\ SetState(step(CurState))
    /\ call' = [op |-> "step", n |-> call.n + 1, args |-> <<>>,
                pre |-> CurState, ret |-> <<>>]
    /\ UNCHANGED program

ClassifyWithProgram ==
    /\ call.n < MaxCalls
    /\ LET r == classify_with_program(CurState, program)
       IN  /\ SetState(r.st)
           /\ call' = [op |-> "classify_with_program", n |-> call.n + 1,
                       args |-> <<>>, pre |-> CurState, ret |-> r.ret]
    /\ UNCHANGED program

\* state.current = Some(mu), as the callers of step do (examples/minimal.rs).
SetCurrent(mu) ==
    /\ call.n < MaxCalls
    /\ current' = <<mu>>
    /\ call' = [op |-> "set_current", n |-> call.n + 1, args |-> <<mu>>,
                pre |-> CurState, ret |-> <<>>]
    /\ UNCHANGED <<program, ra, lobes, sink, null_reg, inf_reg, trace, step_counter>>

\* Export then import (examples/snapshot_roundtrip_cli.rs): on Ok the caller
\* goes on with the program and the state read back, on Err with nothing new.
SnapshotRoundTrip ==
    /\ call.n < MaxCalls
    /\ LET r == snapshot_from_json(WorldName,
                                   snapshot_to_json(WorldName, program, CurState))
       IN  /\ IF r.ok
              THEN program' = r.rules /\ SetState(r.st)
              ELSE UNCHANGED <<program, state_vars>>
           /\ call' = [op |-> "snapshot", n |-> call.n + 1, args |-> <<>>,
                       pre |-> CurState, ret |-> <<r.ok>>]

NextRuntime ==
    \/ \E input \in RuntimeInputs : ProcessInput(input)
    \/ Step
    \/ ClassifyWithProgram
    \/ \E mu \in Seeds : SetCurrent(mu)
    \/ SnapshotRoundTrip

SpecRuntime == InitRuntime /\ [][NextRuntime]_vars

\* C3: in every state reachable by process_input, step,
\* classify_with_program and snapshot export followed by import, the
\* step_index values of the trace are exactly 1..=len(trace), in order.
C3_TraceIndicesContiguous ==
    \A i \in 1..Len(trace) : trace[i].step_index = i

(***************************************************************************)
(* orbit.rs: step_once, orbit_with_provenance, orbit                       *)
(* An Option<(Mu, RewriteProvenance)> is a sequence of length 0 or 1.      *)
(***************************************************************************)
NameX == <<"X">>

NameY == <<"Y">>

\* A scan that lets the first matching rule of any action end the search.
RECURSIVE step_once_stops_at_bucket_rule(_, _, _, _)
step_once_stops_at_bucket_rule(rules, cur, step_i, k) ==
    IF k > Len(rules) THEN <<>>
    ELSE LET m == match_pattern(rules[k].pattern, cur, EmptyMap)
         IN  IF ~m.ok THEN step_once_stops_at_bucket_rule(rules, cur, step_i, k + 1)
             ELSE IF rules[k].action.kind # "Rewrite" THEN <<>>
             ELSE <<[next |-> substitute_template(rules[k].action.template[1], m.env),
                     p |-> [i |-> step_i, rule_i |-> k - 1,
                            pattern |-> rules[k].pattern,
                            template |-> rules[k].action.template[1],
                            bindings |-> m.env]]>>

\* The scan of program.rules: only Rewrite rules are tried, each against a
\* fresh Env; the first that matches fires.
RECURSIVE step_once_from(_, _, _, _)
step_once_from(rules, cur, step_i, k) ==
    IF k > Len(rules) THEN <<>>
    ELSE IF rules[k].action.kind = "Rewrite"
    THEN LET m == match_pattern(rules[k].pattern, cur, EmptyMap)
         IN  IF ~m.ok THEN step_once_from(rules, cur, step_i, k + 1)
             ELSE <<[next |-> substitute_template(rules[k].action.template[1], m.env),
                     p |-> [i |-> step_i, rule_i |-> k - 1,
                            pattern |-> rules[k].pattern,
                            template |-> rules[k].action.template[1],
                            bindings |-> m.env]]>>
    ELSE step_once_from(rules, cur, step_i, k + 1)

step_once(rules, cur, step_i) == step_once_from(rules, cur, step_i, 1)

\* The loop for step_i in 1..=max_steps, with its break.
RECURSIVE orbit_loop(_, _, _, _, _, _)
orbit_loop(rules, cur, step_i, max_steps, seq, prov) ==
    IF step_i > max_steps THEN [seq |-> seq, prov |-> prov]
    ELSE LET r == step_once(rules, cur, step_i)
         IN  IF Len(r) = 0 THEN [seq |-> seq, prov |-> prov]
             ELSE orbit_loop(rules, r[1].next, step_i + 1, max_steps,
                             Append(seq, r[1].next), Append(prov, r[1].p))

\* The loop run for step_i in 0..=max_steps: one step too many.
orbit_with_provenance_overruns(rules, seed, max_steps) ==
    orbit_loop(rules, seed, 0, max_steps, <<seed>>, <<>>)

orbit_with_provenance(rules, seed, max_steps) ==
    orbit_loop(rules, seed, 1, max_steps, <<seed>>, <<>>)

orbit(rules, seed, max_steps) == orbit_with_provenance(rules, seed, max_steps).seq

(***************************************************************************)
(* orbit_json.rs / examples/orbit_cli.rs: classify_orbit                   *)
(***************************************************************************)
TxtEmptyOrbit == <<"e", "m", "p", "t", "y", " ", "o", "r", "b", "i", "t", " ", "(", "n", "o", " ", "s", "t", "a", "t", "e", "s", " ", "p", "r", "o", "d", "u", "c", "e", "d", ")">>

TxtNoCycleOne == <<"n", "o", " ", "d", "e", "t", "e", "c", "t", "e", "d", " ", "c", "y", "c", "l", "e", " ", "u", "p", " ", "t", "o", " ", "1", " ", "s", "t", "e", "p", "s">>

TxtFixedPoint == <<"f", "i", "x", "e", "d", " ", "p", "o", "i", "n", "t">>

TxtPureCycle == <<"p", "u", "r", "e", " ", "l", "i", "m", "i", "t", " ", "c", "y", "c", "l", "e", " ", "(", "p", "e", "r", "i", "o", "d", " ", "=", " ">>

TxtParenClose == <<")">>

TxtTransient == <<"t", "r", "a", "n", "s", "i", "e", "n", "t", " ", "o", "f", " ", "l", "e", "n", "g", "t", "h", " ">>

TxtThenFixedPoint == <<" ", "t", "h", "e", "n", " ", "f", "i", "x", "e", "d", " ", "p", "o", "i", "n", "t">>

TxtThenCycle == <<" ", "t", "h", "e", "n", " ", "l", "i", "m", "i", "t", " ", "c", "y", "c", "l", "e", " ", "(", "p", "e", "r", "i", "o", "d", " ", "=", " ">>

TxtNoCycle == <<"n", "o", " ", "d", "e", "t", "e", "c", "t", "e", "d", " ", "c", "y", "c", "l", "e", " ", "u", "p", " ", "t", "o", " ">>

TxtSteps == <<" ", "s", "t", "e", "p", "s">>

\* for i in 1..seq.len(): the first i with seq[i] == seed (indices from 0).
RECURSIVE found_period(_, _)
found_period(seq, i) ==
    IF i >= Len(seq) THEN <<>>
    ELSE IF seq[i + 1] = seq[1] THEN <<i>>
    ELSE found_period(seq, i + 1)

\* for (idx, mu) in seq.iter().enumerate(): mu == seq[idx % period].
RECURSIVE pure(_, _, _)
pure(seq, period, idx) ==
    IF idx >= Len(seq) THEN TRUE
    ELSE IF seq[idx + 1] # seq[(idx % period) + 1] THEN FALSE
    ELSE pure(seq, period, idx + 1)

\* slice.iter().rposition(|m| m == last) over the indices k, k-1, ..., 0.
RECURSIVE rposition(_, _, _)
rposition(seq, last, k) ==
    IF k < 0 THEN <<>>
    ELSE IF seq[k + 1] = last THEN <<k>>
    ELSE rposition(seq, last, k - 1)

\* slice.iter().position(|m| m == last) over the indices k, k+1, ..., n-1.
RECURSIVE position(_, _, _, _)
position(seq, last, k, n) ==
    IF k >= n THEN <<>>
    ELSE IF seq[k + 1] = last THEN <<k>>
    ELSE position(seq, last, k + 1, n)

cycle_label(transient_len, period) ==
    IF period = 1
    THEN IF transient_len = 0 THEN TxtFixedPoint
         ELSE TxtTransient \o format_uint(transient_len) \o TxtThenFixedPoint
    ELSE IF transient_len = 0
    THEN TxtPureCycle \o format_uint(period) \o TxtParenClose
    ELSE TxtTransient \o format_uint(transient_len) \o TxtThenCycle
             \o format_uint(period) \o TxtParenClose

\* The fallback that takes the first earlier occurrence of the last state
\* where the source takes the latest.
classify_orbit_fallback_earliest(seq) ==
    LET last == seq[Len(seq)]
        prev_idx == position(seq, last, 0, Len(seq) - 1)
    IN  IF Len(prev_idx) = 1
        THEN cycle_label(prev_idx[1], Len(seq) - 1 - prev_idx[1])
        ELSE TxtNoCycle \o format_uint(Len(seq)) \o TxtSteps

classify_orbit_fallback(seq) ==
    LET last == seq[Len(seq)]
        prev_idx == rposition(seq, last, Len(seq) - 2)
    IN  IF Len(prev_idx) = 1
        THEN cycle_label(prev_idx[1], Len(seq) - 1 - prev_idx[1])
        ELSE TxtNoCycle \o format_uint(Len(seq)) \o TxtSteps

\* The single-phase classifier: the first earlier occurrence of the last
\* state, and no seed-anchored phase.
classify_orbit_single_phase(seq) ==
    IF Len(seq) = 0 THEN TxtEmptyOrbit
    ELSE LET last == seq[Len(seq)]
             prev_idx == position(seq, last, 0, Len(seq) - 1)
         IN  IF Len(prev_idx) = 1
             THEN cycle_label(prev_idx[1], Len(seq) - 1 - prev_idx[1])
             ELSE TxtNoCycle \o format_uint(Len(seq)) \o TxtSteps

\* The fallback searching seq[..] instead of seq[..len-1]: the last state
\* finds itself.
classify_orbit_last_finds_itself(seq) ==
    IF Len(seq) = 0 THEN TxtEmptyOrbit
    ELSE IF Len(seq) = 1 THEN TxtNoCycleOne
    ELSE LET fp == found_period(seq, 1)
         IN  IF Len(fp) = 1 /\ pure(seq, fp[1], 0)
             THEN IF fp[1] = 1 THEN TxtFixedPoint
                  ELSE TxtPureCycle \o format_uint(fp[1]) \o TxtParenClose
             ELSE LET prev_idx == rposition(seq, seq[Len(seq)], Len(seq) - 1)
                  IN  cycle_label(prev_idx[1], Len(seq) - 1 - prev_idx[1])

classify_orbit(seq) ==
    IF Len(seq) = 0 THEN TxtEmptyOrbit
    ELSE IF Len(seq) = 1 THEN TxtNoCycleOne
    ELSE LET fp == found_period(seq, 1)
         IN  IF Len(fp) = 1 /\ pure(seq, fp[1], 0)
             THEN IF fp[1] = 1 THEN TxtFixedPoint
                  ELSE TxtPureCycle \o format_uint(fp[1]) \o TxtParenClose
             ELSE classify_orbit_fallback(seq)

(***************************************************************************)
(* orbit as a function of (program, seed, max_steps): SpecOrbit draws the  *)
(* three, runs orbit once, then labels the result as orbit_cli.rs does.    *)
(***************************************************************************)
MaxOrbitSteps == 4

\* The budget of examples/orbit_demo.rs.
DemoMaxSteps == 10

\* The program of examples/orbit_demo.rs: X -> [X,X] -> [X,X,X] -> STABLE.
DemoProgram ==
    << RcxRule(S(NameX), Rewrite(N2(S(NameX), S(NameX)))),
       RcxRule(N2(S(NameX), S(NameX)),
               Rewrite(Node(<<S(NameX), S(NameX), S(NameX)>>))),
       RcxRule(Node(<<S(NameX), S(NameX), S(NameX)>>), Rewrite(S(STABLE))) >>

\* x -> [x,x]: a rule that matches every term, its own result included.
GrowForever == << RcxRule(S(LowerX), Rewrite(N2(S(LowerX), S(LowerX)))) >>

\* A bucket rule that matches X ahead of the rewrite rule for X.
BucketFirst ==
    << RcxRule(S(NameX), ToRa),
       RcxRule(S(NameX), Rewrite(S(NameY))),
       RcxRule(S(LowerX), ToSink) >>

OrbitPrograms ==
    { <<>>,
      DemoProgram,
      GrowForever,
      BucketFirst,
      << RcxRule(S(PING), Rewrite(S(PONG))), RcxRule(S(PONG), Rewrite(S(PING))) >>,
      << RcxRule(S(NameX), Rewrite(S(NameY))), RcxRule(S(NameY), Rewrite(S(NameY))) >>,
      << RcxRule(N2(S(LowerX), S(LowerY)), Rewrite(N2(S(LowerY), S(LowerX)))),
         RcxRule(S(NameX), Rewrite(N2(S(NameX), S(NameY)))) >>,
      << RcxRule(N2(S(LowerX), S(LowerX)), Rewrite(S(LowerX))),
         RcxRule(S(LowerY), ToLobe) >> }

OrbitSeeds ==
    { S(NameX), S(NameY), S(PING), N2(S(NameX), S(NameX)), N2(S(NameX), S(NameY)) }

OrbitBudgets == (0..MaxOrbitSteps) \cup {DemoMaxSteps}

InitOrbit ==
    \E rules \in OrbitPrograms, seed \in OrbitSeeds, n \in OrbitBudgets :
        InitPure(Pending("orbit", <<rules, seed, n>>))

Orbit ==
    /\ call.op = "orbit" /\ call.n = 0
    /\ LET r == orbit_with_provenance(call.args[1], call.args[2], call.args[3])
       IN  call' = [call EXCEPT
                       !.n = 1,
                       !.ret = [seq |-> r.seq, prov |-> r.prov,
                                classification |-> <<>>]]
    /\ UNCHANGED <<program, state_vars>>

ClassifyOrbit ==
    /\ call.op = "orbit" /\ call.n = 1
    /\ call' = [call EXCEPT
                   !.n = 2,
                   !.ret.classification = <<classify_orbit(call.ret.seq)>>]
    /\ UNCHANGED <<program, state_vars>>

NextOrbit == Orbit \/ ClassifyOrbit

SpecOrbit == InitOrbit /\ [][NextOrbit]_vars

OrbitDone == call.op = "orbit" /\ call.n >= 1

\* C11: orbit returns a sequence that starts with the seed and has between
\* 1 and max_steps + 1 elements, one provenance entry per element after the
\* seed; with max_steps = 0 the sequence is the seed alone. This holds for
\* x -> [x,x], which can always be rewritten again.
C11_OrbitBounded ==
    OrbitDone =>
        /\ Len(call.ret.seq) >= 1
        /\ Len(call.ret.seq) <= call.args[3] + 1
        /\ call.ret.seq[1] = call.args[2]
        /\ Len(call.ret.prov) = Len(call.ret.seq) - 1
        /\ call.args[3] = 0 => call.ret.seq = <<call.args[2]>>
        /\ call.args[1] = GrowForever => Len(call.ret.seq) = call.args[3] + 1

\* x -> [x,x] from X with the demo budget: the budget alone ends the run.
C11_Witness ==
    /\ OrbitDone
    /\ call.args[1] = GrowForever
    /\ call.args[2] = S(NameX)
    /\ call.args[3] = DemoMaxSteps
    /\ Len(call.ret.seq) = DemoMaxSteps + 1

\* The rules of a program that rewrite and whose pattern matches term.
RewriteMatches(rules, term) ==
    { k \in 1..Len(rules) :
        /\ rules[k].action.kind = "Rewrite"
        /\ match_pattern(rules[k].pattern, term, EmptyMap).ok }

FirstRewrite(rules, term) ==
    CHOOSE k \in RewriteMatches(rules, term) :
        \A j \in RewriteMatches(rules, term) : k <= j

Successor(rules, term) ==
    LET k == FirstRewrite(rules, term)
    IN  substitute_template(rules[k].action.template[1],
                            match_pattern(rules[k].pattern, term, EmptyMap).env)

\* C12: every element after the seed is the template of the first matching
\* Rewrite rule, instantiated on the element before it; bucket rules never
\* stop or feed the scan; the sequence is shorter than max_steps + 1 only
\* when no Rewrite rule matches its last element.
C12_OrbitFollowsFirstRewrite ==
    OrbitDone =>
        LET rules == call.args[1]
            seq == call.ret.seq
        IN  /\ \A k \in 2..Len(seq) :
                  /\ RewriteMatches(rules, seq[k - 1]) # {}
                  /\ seq[k] = Successor(rules, seq[k - 1])
                  /\ call.ret.prov[k - 1].rule_i + 1 = FirstRewrite(rules, seq[k - 1])
            /\ Len(seq) < call.args[3] + 1 =>
                  RewriteMatches(rules, seq[Len(seq)]) = {}

\* X -> ra stands before X -> rewrite Y: the orbit of X still moves to Y.
C12_Witness ==
    /\ OrbitDone
    /\ call.args[1] = BucketFirst
    /\ call.args[2] = S(NameX)
    /\ call.args[3] = 2
    /\ call.ret.seq = <<S(NameX), S(NameY)>>
    /\ call.ret.prov[1].rule_i = 1

\* C14: an orbit that ends before its budget is labelled "no detected cycle
\* up to n steps" for its length n; the demo program from X with budget 10
\* gives [X, [X,X], [X,X,X], STABLE] and "no detected cycle up to 4 steps".
C14_EarlyStopHasNoCycle ==
    (call.op = "orbit" /\ call.n = 2) =>
        /\ Len(call.ret.seq) < call.args[3] + 1 =>
              call.ret.classification =
                  <<TxtNoCycle \o format_uint(Len(call.ret.seq)) \o TxtSteps>>
        /\ (call.args[1] = DemoProgram /\ call.args[2] = S(NameX)
               /\ call.args[3] = DemoMaxSteps) =>
              /\ call.ret.seq = << S(NameX), N2(S(NameX), S(NameX)),
                                   Node(<<S(NameX), S(NameX), S(NameX)>>),
                                   S(STABLE) >>
              /\ call.ret.classification =
                     <<<<"n", "o", " ", "d", "e", "t", "e", "c", "t", "e", "d", " ", "c", "y", "c", "l", "e", " ", "u", "p", " ", "t", "o", " ", "4", " ", "s", "t", "e", "p", "s">>>>

C14_Witness ==
    /\ call.op = "orbit" /\ call.n = 2
    /\ call.args[1] = DemoProgram
    /\ call.args[2] = S(NameX)
    /\ call.args[3] = DemoMaxSteps
    /\ Len(call.ret.seq) = 4
    /\ call.ret.classification = <<<<"n", "o", " ", "d", "e", "t", "e", "c", "t", "e", "d", " ", "c", "y", "c", "l", "e", " ", "u", "p", " ", "t", "o", " ", "4", " ", "s", "t", "e", "p", "s">>>>

(***************************************************************************)
(* classify_orbit as a function of a sequence: SpecOrbitLabel draws any    *)
(* sequence of states, an orbit of some program or not.                    *)
(***************************************************************************)
MaxOrbitLen == 5

OrbitStates == { S(NameA), S(NameB), Node(<<S(NameA)>>) }

OrbitSeqs == SeqsUpTo(OrbitStates, MaxOrbitLen)

InitOrbitLabel == \E seq \in OrbitSeqs : InitPure(Pending("classify_orbit", <<seq>>))

ClassifySeq ==
    /\ call.op = "classify_orbit" /\ call.n = 0
    /\ call' = [call EXCEPT !.n = 1, !.ret = <<classify_orbit(call.args[1])>>]
    /\ UNCHANGED <<program, state_vars>>

SpecOrbitLabel == InitOrbitLabel /\ [][ClassifySeq]_vars

\* The label of a trailing cycle, as section 4.4 lists its four cases.
TrailingLabel(t, p) ==
    IF p = 1 /\ t = 0 THEN <<"f", "i", "x", "e", "d", " ", "p", "o", "i", "n", "t">>
    ELSE IF p = 1 THEN <<"t", "r", "a", "n", "s", "i", "e", "n", "t", " ", "o", "f", " ", "l", "e", "n", "g", "t", "h", " ">> \o format_uint(t) \o <<" ", "t", "h", "e", "n", " ", "f", "i", "x", "e", "d", " ", "p", "o", "i", "n", "t">>
    ELSE IF t = 0 THEN <<"p", "u", "r", "e", " ", "l", "i", "m", "i", "t", " ", "c", "y", "c", "l", "e", " ", "(", "p", "e", "r", "i", "o", "d", " ", "=", " ">> \o format_uint(p) \o <<")">>
    ELSE <<"t", "r", "a", "n", "s", "i", "e", "n", "t", " ", "o", "f", " ", "l", "e", "n", "g", "t", "h", " ">> \o format_uint(t)
             \o <<" ", "t", "h", "e", "n", " ", "l", "i", "m", "i", "t", " ", "c", "y", "c", "l", "e", " ", "(", "p", "e", "r", "i", "o", "d", " ", "=", " ">> \o format_uint(p) \o <<")">>

\* The two-phase reference over 0-based indices.
ClassifyOrbitRef(seq) ==
    LET n == Len(seq)
        at(k) == seq[k + 1]
        Recur == { i \in 1..(n - 1) : at(i) = at(0) }
        i0 == CHOOSE i \in Recur : \A h \in Recur : i <= h
        Earlier == { j \in 0..(n - 2) : at(j) = at(n - 1) }
        j0 == CHOOSE j \in Earlier : \A h \in Earlier : j >= h
    IN  IF n = 0 THEN <<"e", "m", "p", "t", "y", " ", "o", "r", "b", "i", "t", " ", "(", "n", "o", " ", "s", "t", "a", "t", "e", "s", " ", "p", "r", "o", "d", "u", "c", "e", "d", ")">>
        ELSE IF n = 1 THEN <<"n", "o", " ", "d", "e", "t", "e", "c", "t", "e", "d", " ", "c", "y", "c", "l", "e", " ", "u", "p", " ", "t", "o", " ", "1", " ", "s", "t", "e", "p", "s">>
        ELSE IF Recur # {} /\ (\A k \in 0..(n - 1) : at(k) = at(k % i0))
        THEN IF i0 = 1 THEN <<"f", "i", "x", "e", "d", " ", "p", "o", "i", "n", "t">>
             ELSE <<"p", "u", "r", "e", " ", "l", "i", "m", "i", "t", " ", "c", "y", "c", "l", "e", " ", "(", "p", "e", "r", "i", "o", "d", " ", "=", " ">> \o format_uint(i0) \o <<")">>
        ELSE IF Earlier # {} THEN TrailingLabel(j0, n - 1 - j0)
        ELSE <<"n", "o", " ", "d", "e", "t", "e", "c", "t", "e", "d", " ", "c", "y", "c", "l", "e", " ", "u", "p", " ", "t", "o", " ">> \o format_uint(n) \o <<" ", "s", "t", "e", "p", "s">>

Finite(m, e) == [inf |-> FALSE, mant |-> m, exp |-> e]

Infinity == [inf |-> TRUE, mant |-> 1, exp |-> 0]

Zero == Finite(0, 0)

JNull ==
    [tag |-> "Null", bool |-> FALSE, num |-> Zero, str |-> <<>>,
     items |-> <<>>, obj |-> <<>>]

JBool(b) == [JNull EXCEPT !.tag = "Bool", !.bool = b]

JNumber(n) == [JNull EXCEPT !.tag = "Number", !.num = n]

JString(s) == [JNull EXCEPT !.tag = "String", !.str = s]

JArray(items) == [JNull EXCEPT !.tag = "Array", !.items = items]

JObject(obj) == [JNull EXCEPT !.tag = "Object", !.obj = obj]

\* The largest decimal exponent of a finite f64 (f64::MAX is about 1.8e308).
F64_MAX_10_EXP == 308

RECURSIVE normalize(_, _)
\* The value m * 10^e in the form above.
normalize(m, e) ==
    IF m = 0 THEN Zero
    ELSE IF m % 10 = 0 THEN normalize(m \div 10, e + 1)
    ELSE Finite(m, e)

abs(k) == IF k < 0 THEN -k ELSE k

\* f64::fract() == 0.0; the fract of the infinity is a NaN.
fract_is_zero(n) == ~n.inf /\ n.exp >= 0

\* The number of digits before the decimal point of a number of magnitude
\* at least 1.
int_digits(n) == Len(format_uint(abs(n.mant))) + n.exp

\* f64::abs() < 1e15
below_1e15(n) == ~n.inf /\ (n.mant = 0 \/ int_digits(n) <= 15)

RECURSIVE pow10(_)
pow10(k) == IF k = 0 THEN 1 ELSE 10 * pow10(k - 1)

\* i64::MAX, the value of the infinity cast with `as i64`.
I64_MAX == 2^63 - 1

\* `n as i64`: the integer part, towards zero.
as_i64(n) ==
    IF n.inf THEN I64_MAX
    ELSE IF n.exp >= 0 THEN n.mant * pow10(n.exp)
    ELSE IF n.mant >= 0 THEN n.mant \div pow10(-n.exp)
    ELSE -((-n.mant) \div pow10(-n.exp))

RECURSIVE zeros(_)
zeros(k) == IF k <= 0 THEN <<>> ELSE <<"0">> \o zeros(k - 1)

\* format!("{}", i) of an i64.
format_i64(i) == IF i < 0 THEN <<"-">> \o format_uint(-i) ELSE format_uint(i)

\* format!("{}", n) of an f64: the shortest decimal, without an exponent.
format_f64(n) ==
    IF n.inf THEN <<"i", "n", "f">>
    ELSE LET d == format_uint(abs(n.mant))
             k == -n.exp
             sign == IF n.mant < 0 THEN <<"-">> ELSE <<>>
         IN  IF n.exp >= 0 THEN sign \o d \o zeros(n.exp)
             ELSE IF Len(d) > k
             THEN sign \o SubSeq(d, 1, Len(d) - k) \o <<".">>
                       \o SubSeq(d, Len(d) - k + 1, Len(d))
             ELSE sign \o <<"0", ".">> \o zeros(k - Len(d)) \o d

\* The characters of the model: \t, \n, \r, the printable ASCII characters
\* but the grave accent, and the euro sign U+20AC, which is three bytes of
\* UTF-8 and is written EUR here.
EuroSign == "EUR"

AsciiLow == <<" ", "!", "\"", "#", "$", "%", "&", "'", "(", ")", "*", "+", ",", "-", ".", "/", "0", "1", "2", "3", "4", "5", "6", "7", "8", "9", ":", ";", "<", "=", ">", "?", "@", "A", "B", "C", "D", "E", "F", "G", "H", "I", "J", "K", "L", "M", "N", "O", "P", "Q", "R", "S", "T", "U", "V", "W", "X", "Y", "Z", "[", "\\", "]", "^", "_">>

AsciiHigh == <<"a", "b", "c", "d", "e", "f", "g", "h", "i", "j", "k", "l", "m", "n", "o", "p", "q", "r", "s", "t", "u", "v", "w", "x", "y", "z", "{", "|", "}", "~">>

\* c as u32 (AsciiLow starts at U+0020, AsciiHigh at U+0061).
code_point(c) ==
    IF c = "\t" THEN 9
    ELSE IF c = "\n" THEN 10
    ELSE IF c = "\r" THEN 13
    ELSE IF c = EuroSign THEN 8364
    ELSE IF \E k \in 1..Len(AsciiLow) : AsciiLow[k] = c
    THEN 31 + (CHOOSE k \in 1..Len(AsciiLow) : AsciiLow[k] = c)
    ELSE 96 + (CHOOSE k \in 1..Len(AsciiHigh) : AsciiHigh[k] = c)

\* char::len_utf8
len_utf8(c) == IF c = EuroSign THEN 3 ELSE 1

RECURSIVE str_less(_, _)
\* The order of String: by bytes, which is by code point.
str_less(a, b) ==
    IF b = <<>> THEN FALSE
    ELSE IF a = <<>> THEN TRUE
    ELSE IF Head(a) # Head(b) THEN code_point(Head(a)) < code_point(Head(b))
    ELSE str_less(Tail(a), Tail(b))

RECURSIVE SortedKeys(_)
\* BTreeMap::iter(): the keys in ascending order.
SortedKeys(keys) ==
    IF keys = {} THEN <<>>
    ELSE LET least == CHOOSE k \in keys : \A h \in keys \ {k} : str_less(k, h)
         IN  <<least>> \o SortedKeys(keys \ {least})

RECURSIVE ReverseKeys(_)
ReverseKeys(keys) ==
    IF keys = {} THEN <<>>
    ELSE LET least == CHOOSE k \in keys : \A h \in keys \ {k} : str_less(k, h)
         IN  ReverseKeys(keys \ {least}) \o <<least>>

\* json_escape_string of json_value.rs and trace_canon.rs (control
\* characters other than \n, \r, \t are outside the alphabet).
json_escape_string(s) == <<"\"">> \o json_escape_chars(s) \o <<"\"">>

number_to_json(n) ==
    IF fract_is_zero(n) /\ below_1e15(n)
    THEN (IF n.mant < 0 THEN <<"-">> ELSE <<>>)
             \o format_uint(abs(n.mant)) \o (IF n.mant = 0 THEN <<>> ELSE zeros(n.exp))
    ELSE format_f64(n)

\* An emitter that walks the keys of an object from the largest down.
RECURSIVE to_canonical_json_descending(_)
to_canonical_json_descending(v) ==
    IF v.tag = "Null" THEN <<"n", "u", "l", "l">>
    ELSE IF v.tag = "Bool" THEN (IF v.bool THEN <<"t", "r", "u", "e">> ELSE <<"f", "a", "l", "s", "e">>)
    ELSE IF v.tag = "Number" THEN number_to_json(v.num)
    ELSE IF v.tag = "String" THEN json_escape_string(v.str)
    ELSE IF v.tag = "Array"
    THEN <<"[">> \o join([k \in 1..Len(v.items) |->
                             to_canonical_json_descending(v.items[k])], <<",">>) \o <<"]">>
    ELSE LET keys == ReverseKeys(DOMAIN v.obj)
         IN  <<"{">> \o join([k \in 1..Len(keys) |->
                                json_escape_string(keys[k]) \o <<":">>
                                    \o to_canonical_json_descending(v.obj[keys[k]])],
                             <<",">>) \o <<"}">>

RECURSIVE to_canonical_json(_)
to_canonical_json(v) ==
    IF v.tag = "Null" THEN <<"n", "u", "l", "l">>
    ELSE IF v.tag = "Bool" THEN (IF v.bool THEN <<"t", "r", "u", "e">> ELSE <<"f", "a", "l", "s", "e">>)
    ELSE IF v.tag = "Number" THEN number_to_json(v.num)
    ELSE IF v.tag = "String" THEN json_escape_string(v.str)
    ELSE IF v.tag = "Array"
    THEN <<"[">> \o join([k \in 1..Len(v.items) |-> to_canonical_json(v.items[k])],
                         <<",">>) \o <<"]">>
    ELSE LET keys == SortedKeys(DOMAIN v.obj)
         IN  <<"{">> \o join([k \in 1..Len(keys) |->
                                json_escape_string(keys[k]) \o <<":">>
                                    \o to_canonical_json(v.obj[keys[k]])],
                             <<",">>) \o <<"}">>

RECURSIVE deep_sorted(_)
deep_sorted(v) ==
    IF v.tag = "Array"
    THEN JArray([k \in 1..Len(v.items) |-> deep_sorted(v.items[k])])
    ELSE IF v.tag = "Object"
    THEN JObject([k \in DOMAIN v.obj |-> deep_sorted(v.obj[k])])
    ELSE v

(***************************************************************************)
(* json_value.rs: the parser. A Result<(JsonValue, &str), String> is a     *)
(* record [st, msg, val, rest]; st is "ok", "err", or "panic" when a slice *)
(* index falls inside a character.                                         *)
(***************************************************************************)
POk(v, rest) == [st |-> "ok", msg |-> "", val |-> v, rest |-> rest]

PErr(m) == [st |-> "err", msg |-> m, val |-> JNull, rest |-> <<>>]

PPanic ==
    [st |-> "panic", msg |-> "byte index is not a char boundary",
     val |-> JNull, rest |-> <<>>]

skip_ws(s) == trim_start(s)

parse_null(s) ==
    IF starts_with(s, <<"n", "u", "l", "l">>) THEN POk(JNull, from(s, 5))
    ELSE PErr("expected 'null'")

parse_true(s) ==
    IF starts_with(s, <<"t", "r", "u", "e">>) THEN POk(JBool(TRUE), from(s, 5))
    ELSE PErr("expected 'true'")

parse_false(s) ==
    IF starts_with(s, <<"f", "a", "l", "s", "e">>) THEN POk(JBool(FALSE), from(s, 6))
    ELSE PErr("expected 'false'")

RECURSIVE byte_slice_from(_, _)
\* &s[b..] for a byte index b: a sequence of length 0 (panic) or 1.
byte_slice_from(s, b) ==
    IF b = 0 THEN <<s>>
    ELSE IF s = <<>> THEN <<>>
    ELSE IF len_utf8(Head(s)) > b THEN <<>>
    ELSE byte_slice_from(Tail(s), b - len_utf8(Head(s)))

HexDigits == <<"0", "1", "2", "3", "4", "5", "6", "7", "8", "9", "a", "b", "c", "d", "e", "f">>

HexDigitsUpper == <<"0", "1", "2", "3", "4", "5", "6", "7", "8", "9", "A", "B", "C", "D", "E", "F">>

is_ascii_hexdigit(c) == \E k \in 1..16 : HexDigits[k] = c \/ HexDigitsUpper[k] = c

hex_value(c) == (CHOOSE k \in 1..16 : HexDigits[k] = c \/ HexDigitsUpper[k] = c) - 1

\* u32::from_str_radix(hex, 16) of four hex digits.
from_str_radix(hex) ==
    ((hex_value(hex[1]) * 16 + hex_value(hex[2])) * 16 + hex_value(hex[3])) * 16
        + hex_value(hex[4])

\* char::from_u32: none for a surrogate. A code outside the alphabet of
\* the model has no character here either; no input draws one.
from_u32(code) ==
    IF code = 9 THEN <<"\t">>
    ELSE IF code = 10 THEN <<"\n">>
    ELSE IF code = 13 THEN <<"\r">>
    ELSE IF code >= 32 /\ code <= 95 THEN <<AsciiLow[code - 31]>>
    ELSE IF code >= 97 /\ code <= 126 THEN <<AsciiHigh[code - 96]>>
    ELSE IF code = 8364 THEN <<EuroSign>>
    ELSE <<>>

RECURSIVE string_loop(_, _, _, _)
\* The loop of parse_string over s, the text after the opening quote: k is
\* the place of chars.next(), consumed the count kept by the source, which
\* starts at 1 for the opening quote and adds 1 for an escaped character
\* other than the named ones, whatever its length. The rest is
\* &s[consumed - 1..].
string_loop(s, k, result, consumed) ==
    LET c == IF k <= Len(s) THEN s[k] ELSE ""
        e == IF k + 1 <= Len(s) THEN s[k + 1] ELSE ""
        rest == byte_slice_from(s, (consumed + 1) - 1)
    IN  CASE c = "" -> PErr("unterminated string")
          [] c = "\"" -> IF rest = <<>> THEN PPanic ELSE POk(JString(result), rest[1])
          [] c = "\\" /\ e = "" -> PErr("unterminated escape")
          [] c = "\\" /\ e = "n" ->
                 string_loop(s, k + 2, Append(result, "\n"), consumed + 2)
          [] c = "\\" /\ e = "r" ->
                 string_loop(s, k + 2, Append(result, "\r"), consumed + 2)
          [] c = "\\" /\ e = "t" ->
                 string_loop(s, k + 2, Append(result, "\t"), consumed + 2)
          [] c = "\\" /\ e = "u" ->
                 IF \E h \in 2..5 : k + h > Len(s) \/ ~is_ascii_hexdigit(s[k + h])
                 THEN PErr("invalid unicode escape")
                 ELSE string_loop(s, k + 6,
                          result \o from_u32(from_str_radix(SubSeq(s, k + 2, k + 5))),
                          consumed + 6)
          [] c = "\\" /\ e \notin {"", "n", "r", "t", "u"} ->
                 string_loop(s, k + 2, Append(result, e), consumed + 2)
          [] OTHER -> string_loop(s, k + 1, Append(result, c), consumed + len_utf8(c))

parse_string(s) ==
    IF ~starts_with(s, <<"\"">>) THEN PErr("expected '\"'")
    ELSE string_loop(Tail(s), 1, <<>>, 1)

RECURSIVE digits_end(_, _)
\* while end < chars.len() && chars[end].is_ascii_digit() { end += 1 },
\* with end counted from 1.
digits_end(chars, end) ==
    IF end <= Len(chars) /\ is_ascii_digit(chars[end]) THEN digits_end(chars, end + 1)
    ELSE end

\* str::parse::<f64> of a text that parse_number has scanned: sign, integer
\* digits, fraction digits and exponent. A magnitude of 1e309 or more is
\* read as the infinity.
parse_f64(text) ==
    LET neg == text # <<>> /\ text[1] = "-"
        body == IF neg THEN Tail(text) ELSE text
        int_end == digits_end(body, 1)
        has_frac == int_end <= Len(body) /\ body[int_end] = "."
        frac_end == IF has_frac THEN digits_end(body, int_end + 1) ELSE int_end
        frac == IF has_frac THEN SubSeq(body, int_end + 1, frac_end - 1) ELSE <<>>
        has_exp == frac_end <= Len(body) /\ body[frac_end] \in {"e", "E"}
        exp_neg == has_exp /\ frac_end + 1 <= Len(body) /\ body[frac_end + 1] = "-"
        exp_from == IF has_exp /\ frac_end + 1 <= Len(body)
                        /\ body[frac_end + 1] \in {"+", "-"}
                    THEN frac_end + 2 ELSE frac_end + 1
        exp_abs == IF has_exp THEN parse_uint(SubSeq(body, exp_from, Len(body)), 0) ELSE 0
        mant == parse_uint(SubSeq(body, 1, int_end - 1) \o frac, 0)
        n == normalize(IF neg THEN -mant ELSE mant,
                       (IF exp_neg THEN -exp_abs ELSE exp_abs) - Len(frac))
    IN  IF n.mant # 0 /\ int_digits(n) - 1 > F64_MAX_10_EXP THEN Infinity ELSE n

parse_number(s) ==
    LET e0 == IF s # <<>> /\ s[1] = "-" THEN 2 ELSE 1
    IN  IF e0 > Len(s) THEN PErr("expected digit")
        ELSE IF ~is_ascii_digit(s[e0]) THEN PErr("expected digit")
        ELSE LET e1 == IF s[e0] = "0" THEN e0 + 1 ELSE digits_end(s, e0)
                 frac == e1 <= Len(s) /\ s[e1] = "."
             IN  IF frac /\ (e1 + 1 > Len(s) \/ ~is_ascii_digit(s[e1 + 1]))
                 THEN PErr("expected digit after decimal")
                 ELSE LET e2 == IF frac THEN digits_end(s, e1 + 1) ELSE e1
                          expo == e2 <= Len(s) /\ s[e2] \in {"e", "E"}
                          e3 == IF expo /\ e2 + 1 <= Len(s) /\ s[e2 + 1] \in {"+", "-"}
                                THEN e2 + 2 ELSE e2 + 1
                      IN  IF expo /\ (e3 > Len(s) \/ ~is_ascii_digit(s[e3]))
                          THEN PErr("expected digit in exponent")
                          ELSE LET end == IF expo THEN digits_end(s, e3) ELSE e2
                               IN  Once(SubSeq(s, 1, end - 1), LAMBDA num_str :
                                       POk(JNumber(parse_f64(num_str)),
                                           from(s, Len(num_str) + 1)))

RECURSIVE parse_value(_)
RECURSIVE array_loop(_, _)
RECURSIVE object_loop(_, _)

\* The loop of parse_array, with s at the next item.
array_loop(s, items) ==
    Once(parse_value(s), LAMBDA r :
        LET s1 == skip_ws(r.rest)
            items1 == Append(items, r.val)
        IN  CASE r.st # "ok" -> r
              [] r.st = "ok" /\ starts_with(s1, <<"]">>) -> POk(JArray(items1), Tail(s1))
              [] r.st = "ok" /\ starts_with(s1, <<",">>) -> array_loop(skip_ws(Tail(s1)), items1)
              [] OTHER -> PErr("expected ',' or ']'"))

parse_array(s) ==
    IF ~starts_with(s, <<"[">>) THEN PErr("expected '['")
    ELSE LET s1 == skip_ws(Tail(s))
         IN  IF starts_with(s1, <<"]">>) THEN POk(JArray(<<>>), Tail(s1))
             ELSE array_loop(s1, <<>>)

\* The loop of parse_object, with s at the next key; BTreeMap::insert
\* replaces the value of a key that is already there.
object_loop(s, obj) ==
    LET k == parse_string(s)
        s1 == skip_ws(k.rest)
    IN  CASE k.st # "ok" -> k
          [] k.st = "ok" /\ ~starts_with(s1, <<":">>) -> PErr("expected ':'")
          [] OTHER ->
              Once(parse_value(skip_ws(Tail(s1))), LAMBDA r :
                  LET obj1 == MapInsert(obj, k.val.str, r.val)
                      s2 == skip_ws(r.rest)
                  IN  CASE r.st # "ok" -> r
                        [] r.st = "ok" /\ starts_with(s2, <<"}">>) ->
                               POk(JObject(obj1), Tail(s2))
                        [] r.st = "ok" /\ starts_with(s2, <<",">>) ->
                               object_loop(skip_ws(Tail(s2)), obj1)
                        [] OTHER -> PErr("expected ',' or '}'"))

parse_object(s) ==
    IF ~starts_with(s, <<"{">>) THEN PErr("expected '{'")
    ELSE LET s1 == skip_ws(Tail(s))
         IN  IF starts_with(s1, <<"}">>) THEN POk(JObject(<<>>), Tail(s1))
             ELSE object_loop(s1, <<>>)

parse_value(s0) ==
    LET s == skip_ws(s0)
    IN  CASE s = <<>> -> PErr("unexpected end of input")
          [] s # <<>> /\ s[1] = "n" -> parse_null(s)
          [] s # <<>> /\ s[1] = "t" -> parse_true(s)
          [] s # <<>> /\ s[1] = "f" -> parse_false(s)
          [] s # <<>> /\ s[1] = "\"" -> parse_string(s)
          [] s # <<>> /\ s[1] = "[" -> parse_array(s)
          [] s # <<>> /\ s[1] = "{" -> parse_object(s)
          [] s # <<>> /\ (s[1] = "-" \/ is_ascii_digit(s[1])) -> parse_number(s)
          [] OTHER -> PErr("unexpected character")

\* JsonValue::parse: the text left after the value is not looked at (an
\* error has no text left).
JsonValue_parse(s0) ==
    LET s == trim(s0)
    IN  IF s = <<>> THEN PErr("empty input")
        ELSE [parse_value(s) EXCEPT !.rest = <<>>]

(***************************************************************************)
(* trace_canon.rs: canon_event, canon_events, canon_event_json,            *)
(* read_jsonl, canon_jsonl. A Result<T, String> is a record [st, msg, ..]. *)
(***************************************************************************)
TRACE_EVENT_V == 1

KeyV == <<"v">>

KeyType == <<"t", "y", "p", "e">>

KeyI == <<"i">>

KeyT == <<"t">>

KeyMu == <<"m", "u">>

KeyMeta == <<"m", "e", "t", "a">>

TRACE_EVENT_KEY_ORDER == <<KeyV, KeyType, KeyI, KeyT, KeyMu, KeyMeta>>

CanonEvent(v, event_type, i, t, mu, meta) ==
    [v |-> v, event_type |-> event_type, i |-> i, t |-> t, mu |-> mu, meta |-> meta]

NoEvent == CanonEvent(0, <<>>, 0, <<>>, <<>>, <<>>)

EvErr(m) == [st |-> "err", msg |-> m, ev |-> NoEvent]

\* obj.get(key)
get(obj, key) == IF key \in DOMAIN obj THEN <<obj[key]>> ELSE <<>>

canon_event(ev) ==
    IF ev.tag # "Object" THEN EvErr("event must be an object")
    ELSE
    LET v == get(ev.obj, KeyV)
        ty == get(ev.obj, KeyType)
        i == get(ev.obj, KeyI)
        t == get(ev.obj, KeyT)
        mu == get(ev.obj, KeyMu)
        meta == get(ev.obj, KeyMeta)
    IN  IF v # <<>> /\ v[1].tag # "Number" THEN EvErr("event.v must be an integer")
        ELSE IF v # <<>> /\ as_i64(v[1].num) # TRACE_EVENT_V THEN EvErr("event.v must be 1")
        ELSE IF ty = <<>> \/ ty[1].tag # "String" \/ trim(ty[1].str) = <<>>
        THEN EvErr("event.type must be a non-empty string")
        ELSE IF i = <<>> \/ i[1].tag # "Number"
        THEN EvErr("event.i must be an integer >= 0")
        ELSE IF as_i64(i[1].num) < 0 THEN EvErr("event.i must be >= 0")
        ELSE IF t # <<>> /\ t[1].tag = "String" /\ trim(t[1].str) = <<>>
        THEN EvErr("event.t must be a non-empty string when provided")
        ELSE IF t # <<>> /\ t[1].tag \notin {"String", "Null"}
        THEN EvErr("event.t must be a string when provided")
        ELSE IF meta # <<>> /\ meta[1].tag \notin {"Object", "Null"}
        THEN EvErr("event.meta must be an object when provided")
        ELSE [st |-> "ok", msg |-> "",
              ev |-> CanonEvent(
                  IF v = <<>> THEN TRACE_EVENT_V ELSE as_i64(v[1].num),
                  ty[1].str,
                  as_i64(i[1].num),
                  IF t = <<>> \/ t[1].tag = "Null" THEN <<>> ELSE <<t[1].str>>,
                  IF mu = <<>> \/ mu[1].tag = "Null" THEN <<>> ELSE <<deep_sorted(mu[1])>>,
                  IF meta = <<>> \/ meta[1].tag = "Null" THEN <<>>
                  ELSE <<deep_sorted(meta[1])>>)]

RECURSIVE canon_all(_, _)
\* for ev in events { out.push(canon_event(ev)?) }
canon_all(events, out) ==
    IF events = <<>> THEN [st |-> "ok", msg |-> "", events |-> out]
    ELSE LET r == canon_event(Head(events))
         IN  IF r.st # "ok" THEN [st |-> "err", msg |-> r.msg, events |-> <<>>]
             ELSE canon_all(Tail(events), Append(out, r.ev))

canon_events(events) ==
    Once(canon_all(events, <<>>), LAMBDA r :
        IF r.st # "ok" THEN r
        ELSE IF r.events # <<>>
                 /\ [k \in 1..Len(r.events) |-> r.events[k].i]
                        # [k \in 1..Len(r.events) |-> k - 1]
        THEN [st |-> "err", msg |-> "event.i must be contiguous 0..n-1 in-order",
              events |-> <<>>]
        ELSE r)

canon_event_json(ev) ==
    <<"{">> \o <<"\"", "v", "\"", ":">> \o format_i64(ev.v)
        \o <<",", "\"", "t", "y", "p", "e", "\"", ":">> \o json_escape_string(ev.event_type)
        \o <<",", "\"", "i", "\"", ":">> \o format_i64(ev.i)
        \o (IF ev.t # <<>> THEN <<",", "\"", "t", "\"", ":">> \o json_escape_string(ev.t[1]) ELSE <<>>)
        \o (IF ev.mu # <<>> THEN <<",", "\"", "m", "u", "\"", ":">> \o to_canonical_json(ev.mu[1]) ELSE <<>>)
        \o (IF ev.meta # <<>> THEN <<",", "\"", "m", "e", "t", "a", "\"", ":">> \o to_canonical_json(ev.meta[1]) ELSE <<>>)
        \o <<"}">>

\* str::lines(): the pieces between line feeds, each without the carriage
\* return before its line feed; no last piece after a final line feed.
lines(content) ==
    Once(split(content, <<"\n">>), LAMBDA parts :
    LET strip(k) == IF k < Len(parts) /\ ends_with(parts[k], <<"\r">>)
                    THEN SubSeq(parts[k], 1, Len(parts[k]) - 1)
                    ELSE parts[k]
        n == IF parts[Len(parts)] = <<>> THEN Len(parts) - 1 ELSE Len(parts)
    IN  [k \in 1..n |-> strip(k)])

RECURSIVE read_lines(_, _)
read_lines(ls, events) ==
    IF ls = <<>> THEN [st |-> "ok", msg |-> "", events |-> events]
    ELSE LET line == trim(Head(ls))
         IN  IF line = <<>> THEN read_lines(Tail(ls), events)
             ELSE Once(JsonValue_parse(line), LAMBDA val :
                      IF val.st = "panic"
                      THEN [st |-> "panic", msg |-> val.msg, events |-> <<>>]
                      ELSE IF val.st = "err"
                      THEN [st |-> "err", msg |-> "invalid JSON", events |-> <<>>]
                      ELSE IF val.val.tag # "Object"
                      THEN [st |-> "err", msg |-> "expected object/dict per line",
                            events |-> <<>>]
                      ELSE read_lines(Tail(ls), Append(events, val.val)))

read_jsonl(content) == Once(lines(content), LAMBDA ls : read_lines(ls, <<>>))

RECURSIVE jsonl_text(_)
jsonl_text(canon) ==
    IF canon = <<>> THEN <<>>
    ELSE canon_event_json(Head(canon)) \o <<"\n">> \o jsonl_text(Tail(canon))

canon_jsonl(events) ==
    Once(canon_events(events), LAMBDA canon :
        IF canon.st # "ok" THEN [st |-> "err", msg |-> canon.msg, text |-> <<>>]
        ELSE [st |-> "ok", msg |-> "", text |-> jsonl_text(canon.events)])

(***************************************************************************)
(* canon_event as a function of one event: SpecCanonEvent draws an object  *)
(* with its v, type and i each absent, well-formed or ill-formed.          *)
(***************************************************************************)
RECURSIVE Obj(_)
\* The object with the given <<key, value>> pairs.
Obj(pairs) ==
    IF pairs = <<>> THEN <<>>
    ELSE MapInsert(Obj(SubSeq(pairs, 1, Len(pairs) - 1)),
                   pairs[Len(pairs)][1], pairs[Len(pairs)][2])

JInt(k) == JNumber(normalize(k, 0))

\* The decimal with one digit after the point, k / 10.
JTenths(k) == JNumber(normalize(k, -1))

\* A field of an event: no pair, or one.
Field(key, values) == {<<>>} \cup {<<<<key, x>>>> : x \in values}

VChoices == {JInt(1), JInt(2), JInt(0), JTenths(17), JString(<<"1">>), JNull}

TypeChoices == {JString(<<"a">>), JString(<<" ">>), JString(<<>>), JInt(5), JNull}

IChoices ==
    {JInt(0), JInt(3), JInt(-1), JTenths(5), JTenths(15), JTenths(-5),
     JString(<<"0">>)}

CandidateEvents ==
    { JObject(Obj(v \o ty \o i)) :
        v \in Field(KeyV, VChoices), ty \in Field(KeyType, TypeChoices),
        i \in Field(KeyI, IChoices) }

InitCanonEvent == \E ev \in CandidateEvents : InitPure(Pending("canon_event", <<ev>>))

CanonEventCall ==
    /\ call.op = "canon_event" /\ call.n = 0
    /\ call' = [call EXCEPT !.n = 1, !.ret = canon_event(call.args[1])]
    /\ UNCHANGED <<program, state_vars>>

SpecCanonEvent == InitCanonEvent /\ [][CanonEventCall]_vars

IsIntegral(x) == x.tag = "Number" /\ ~x.num.inf /\ x.num.exp >= 0

\* C16: canon_event returns an error for an event with no v, for an event
\* whose v is not 1, and for an event whose type is missing, not a string,
\* or empty once trimmed.
C16_SchemaVersionRequired ==
    Returned("canon_event") =>
        LET o == call.args[1].obj
        IN  (\/ KeyV \notin DOMAIN o
             \/ o[KeyV] # JInt(1)
             \/ KeyType \notin DOMAIN o
             \/ o[KeyType].tag # "String"
             \/ trim(o[KeyType].str) = <<>>)
            => call.ret.st = "err"

\* C17: canon_event accepts an event only if its i is a non-negative
\* integer and its v an integer; 0.5, 1.5, -0.5 and 1.7 are rejected, never
\* truncated into an index or a version that passes.
C17_IntegersNotCoerced ==
    Returned("canon_event") =>
        LET o == call.args[1].obj
        IN  call.ret.st = "ok" =>
                /\ KeyI \in DOMAIN o /\ IsIntegral(o[KeyI]) /\ o[KeyI].num.mant >= 0
                /\ KeyV \in DOMAIN o => IsIntegral(o[KeyV])

(***************************************************************************)
(* canon_events as a function of an event list: SpecCanonEvents draws up   *)
(* to MaxEvents events that differ in their i only.                        *)
(***************************************************************************)
MaxEvents == 3

IndexChoices == {JInt(0), JInt(1), JInt(2), JTenths(15)}

IndexedEvent(i) ==
    JObject(Obj(<< <<KeyV, JInt(1)>>, <<KeyType, JString(<<"a">>)>>, <<KeyI, i>> >>))

EventLists == SeqsUpTo({IndexedEvent(i) : i \in IndexChoices}, MaxEvents)

InitCanonEvents ==
    \E events \in EventLists : InitPure(Pending("canon_events", <<events>>))

CanonEventsCall ==
    /\ call.op = "canon_events" /\ call.n = 0
    /\ call' = [call EXCEPT !.n = 1, !.ret = canon_events(call.args[1])]
    /\ UNCHANGED <<program, state_vars>>

SpecCanonEvents == InitCanonEvents /\ [][CanonEventsCall]_vars

\* C15: canon_events returns an error for every non-empty list whose i
\* values are not 0, 1, ..., n-1 in that order, and on success the i values
\* it returns are those it was given.
C15_ContiguousOrError ==
    Returned("canon_events") =>
        LET events == call.args[1]
            given == [k \in 1..Len(events) |-> events[k].obj[KeyI]]
        IN  /\ (events # <<>> /\ given # [k \in 1..Len(events) |-> JInt(k - 1)])
                   => call.ret.st = "err"
            /\ call.ret.st = "ok" =>
                   given = [k \in 1..Len(call.ret.events) |-> JInt(call.ret.events[k].i)]

\* Lists of integer i values only: gaps, duplicates, a start other than 0
\* and reorderings are all refused, and nothing is renumbered.
C15_IntegerIndicesChecked ==
    Returned("canon_events") =>
        LET events == call.args[1]
            given == [k \in 1..Len(events) |-> events[k].obj[KeyI]]
        IN  (\A k \in 1..Len(events) : IsIntegral(given[k])) =>
                /\ (events # <<>> /\ given # [k \in 1..Len(events) |-> JInt(k - 1)])
                       => call.ret.st = "err"
                /\ call.ret.st = "ok" =>
                       given = [k \in 1..Len(call.ret.events) |->
                                   JInt(call.ret.events[k].i)]

(***************************************************************************)
(* Canonicalizing a JSONL text, as replay_main_inner does: read_jsonl,    *)
(* then canon_jsonl. SpecCanonJsonl draws the text of one event, each     *)
(* member in one of its spellings and the members in one of three orders,  *)
(* then canonicalizes the text and the canonical text in turn.             *)
(***************************************************************************)
read_and_canon(content) ==
    Once(read_jsonl(content), LAMBDA events :
        IF events.st # "ok" THEN [st |-> events.st, msg |-> events.msg, text |-> <<>>]
        ELSE canon_jsonl(events.events))

\* A member of an event with the texts that spell it (the empty text: the
\* member is left out) and the text it has in canonical form.
Member(spellings, canonical) == [spellings |-> spellings, canonical |-> canonical]

MemberV == Member({<<"\"", "v", "\"", ":", "1">>}, <<"\"", "v", "\"", ":", "1">>)

MemberType == Member({<<"\"", "t", "y", "p", "e", "\"", ":", "\"", "a", "\"">>}, <<"\"", "t", "y", "p", "e", "\"", ":", "\"", "a", "\"">>)

MemberI == Member({<<"\"", "i", "\"", ":", "0">>}, <<"\"", "i", "\"", ":", "0">>)

MembersT ==
    { Member({<<>>, <<"\"", "t", "\"", ":", "n", "u", "l", "l">>}, <<>>),
      Member({<<"\"", "t", "\"", ":", "\"", "x", "\"">>}, <<"\"", "t", "\"", ":", "\"", "x", "\"">>) }

MembersMu ==
    { Member({<<>>, <<"\"", "m", "u", "\"", ":", "n", "u", "l", "l">>}, <<>>),
      Member({<<"\"", "m", "u", "\"", ":", "{", "\"", "b", "\"", ":", "1", ",", "\"", "a", "\"", ":", "[", "{", "\"", "d", "\"", ":", "2", ",", "\"", "c", "\"", ":", "3", "}", "]", "}">>, <<"\"", "m", "u", "\"", ":", "{", "\"", "a", "\"", ":", "[", "{", "\"", "d", "\"", ":", "2", ",", "\"", "c", "\"", ":", "3", "}", "]", ",", "\"", "b", "\"", ":", "1", "}">>,
              <<"\"", "m", "u", "\"", ":", "{", "\"", "b", "\"", ":", "1", ",", "\"", "a", "\"", ":", "[", "{", "\"", "c", "\"", ":", "3", ",", "\"", "d", "\"", ":", "2", "}", "]", "}">>, <<"\"", "m", "u", "\"", ":", "{", "\"", "a", "\"", ":", "[", "{", "\"", "c", "\"", ":", "3", ",", "\"", "d", "\"", ":", "2", "}", "]", ",", "\"", "b", "\"", ":", "1", "}">>},
             <<"\"", "m", "u", "\"", ":", "{", "\"", "a", "\"", ":", "[", "{", "\"", "c", "\"", ":", "3", ",", "\"", "d", "\"", ":", "2", "}", "]", ",", "\"", "b", "\"", ":", "1", "}">>),
      Member({<<"\"", "m", "u", "\"", ":", "1", ".", "5">>}, <<"\"", "m", "u", "\"", ":", "1", ".", "5">>),
      Member({<<"\"", "m", "u", "\"", ":", "1", "e", "4", "0", "0">>}, <<"\"", "m", "u", "\"", ":", "i", "n", "f">>) }

MembersMeta ==
    { Member({<<>>, <<"\"", "m", "e", "t", "a", "\"", ":", "n", "u", "l", "l">>}, <<>>),
      Member({<<"\"", "m", "e", "t", "a", "\"", ":", "{", "\"", "k", "\"", ":", "{", "\"", "q", "\"", ":", "t", "r", "u", "e", ",", "\"", "p", "\"", ":", "\"", "s", "\"", "}", "}">>, <<"\"", "m", "e", "t", "a", "\"", ":", "{", "\"", "k", "\"", ":", "{", "\"", "p", "\"", ":", "\"", "s", "\"", ",", "\"", "q", "\"", ":", "t", "r", "u", "e", "}", "}">>},
             <<"\"", "m", "e", "t", "a", "\"", ":", "{", "\"", "k", "\"", ":", "{", "\"", "p", "\"", ":", "\"", "s", "\"", ",", "\"", "q", "\"", ":", "t", "r", "u", "e", "}", "}">>) }

KeyOrders == {"fixed", "reversed", "rotated"}

Reordered(parts, order) ==
    IF order = "reversed" THEN [k \in 1..Len(parts) |-> parts[Len(parts) + 1 - k]]
    ELSE IF order = "rotated" THEN Tail(parts) \o <<Head(parts)>>
    ELSE parts

NonEmpty(part) == part # <<>>

EventText(parts, order) ==
    <<"{">> \o join(Reordered(SelectSeq(parts, NonEmpty), order), <<",">>) \o <<"}">>

InitCanonJsonl ==
    \E t \in MembersT, mu \in MembersMu, meta \in MembersMeta, order \in KeyOrders :
        \E st \in t.spellings, smu \in mu.spellings, smeta \in meta.spellings :
            InitPure(Pending("canon_jsonl",
                << EventText(<<<<"\"", "v", "\"", ":", "1">>, <<"\"", "t", "y", "p", "e", "\"", ":", "\"", "a", "\"">>, <<"\"", "i", "\"", ":", "0">>, st, smu, smeta>>, order),
                   EventText(<<MemberV.canonical, MemberType.canonical, MemberI.canonical,
                               t.canonical, mu.canonical, meta.canonical>>, "fixed")
                       \o <<"\n">> >>))

\* replay_main_inner, lines 117-120, on the trace text.
Canonicalize ==
    /\ call.op = "canon_jsonl" /\ call.n = 0
    /\ call' = [call EXCEPT !.n = 1,
                            !.ret = [first |-> read_and_canon(call.args[1]),
                                     second |-> <<>>]]
    /\ UNCHANGED <<program, state_vars>>

\* The same on the canonical text, when there is one.
Recanonicalize ==
    /\ call.op = "canon_jsonl" /\ call.n = 1
    /\ call.ret.first.st = "ok"
    /\ call' = [call EXCEPT !.n = 2,
                            !.ret.second = <<read_and_canon(call.ret.first.text)>>]
    /\ UNCHANGED <<program, state_vars>>

NextCanonJsonl == Canonicalize \/ Recanonicalize

SpecCanonJsonl == InitCanonJsonl /\ [][NextCanonJsonl]_vars

\* C18: when canon_jsonl succeeds with text T, T reads back as events and
\* their canonical text is T again.
C18_CanonIdempotent ==
    (call.op = "canon_jsonl" /\ call.n = 2) =>
        /\ call.ret.second[1].st = "ok"
        /\ call.ret.second[1].text = call.ret.first.text

\* C19: the canonical text of an event is its members in the order v, type,
\* i, t, mu, meta, without the absent and the null ones, every nested object
\* with its keys ascending, whatever the order of the keys in the input.
C19_KeyOrderIndependent ==
    (call.op = "canon_jsonl" /\ call.n >= 1) =>
        /\ call.ret.first.st = "ok"
        /\ call.ret.first.text = call.args[2]

C19_Witness ==
    /\ call.op = "canon_jsonl" /\ call.n >= 1
    /\ call.args[1] = <<"{", "\"", "m", "e", "t", "a", "\"", ":", "{", "\"", "k", "\"", ":", "{", "\"", "q", "\"", ":", "t", "r", "u", "e", ",", "\"", "p", "\"", ":", "\"", "s", "\"", "}", "}", ",", "\"", "m", "u", "\"", ":", "{", "\"", "b", "\"", ":", "1", ",", "\"", "a", "\"", ":", "[", "{", "\"", "d", "\"", ":", "2", ",", "\"", "c", "\"", ":", "3", "}", "]", "}", ",", "\"", "t", "\"", ":", "\"", "x", "\"", ",", "\"", "i", "\"", ":", "0", ",", "\"", "t", "y", "p", "e", "\"", ":", "\"", "a", "\"", ",", "\"", "v", "\"", ":", "1", "}">>
    /\ call.ret.first.text = <<"{", "\"", "v", "\"", ":", "1", ",", "\"", "t", "y", "p", "e", "\"", ":", "\"", "a", "\"", ",", "\"", "i", "\"", ":", "0", ",", "\"", "t", "\"", ":", "\"", "x", "\"", ",", "\"", "m", "u", "\"", ":", "{", "\"", "a", "\"", ":", "[", "{", "\"", "c", "\"", ":", "3", ",", "\"", "d", "\"", ":", "2", "}", "]", ",", "\"", "b", "\"", ":", "1", "}", ",", "\"", "m", "e", "t", "a", "\"", ":", "{", "\"", "k", "\"", ":", "{", "\"", "p", "\"", ":", "\"", "s", "\"", ",", "\"", "q", "\"", ":", "t", "r", "u", "e", "}", "}", "}">> \o <<"\n">>

(***************************************************************************)
(* replay_cli.rs: parse_args, replay_main_inner, replay_main. Arguments    *)
(* and paths are strings; the file system maps a path to what is there:    *)
(* nothing, a directory, or a file with its text.                          *)
(***************************************************************************)
EXIT_OK == 0

EXIT_MISMATCH == 1

EXIT_ERROR == 2

ReplayArgs(trace_path, out, expect, check_canon) ==
    [trace |-> trace_path, out |-> out, expect |-> expect, check_canon |-> check_canon]

ArgsErr(msg) == [st |-> "err", msg |-> msg, args |-> ReplayArgs("", <<>>, <<>>, FALSE)]

RECURSIVE parse_args_loop(_, _, _, _, _, _)
parse_args_loop(args, i, trace_path, out, expect, check_canon) ==
    IF i > Len(args)
    THEN IF trace_path = <<>> THEN ArgsErr("--trace is required")
         ELSE [st |-> "ok", msg |-> "",
               args |-> ReplayArgs(trace_path[1], out, expect, check_canon)]
    ELSE IF args[i] = "--trace"
    THEN IF i + 1 > Len(args) THEN ArgsErr("--trace requires a path")
         ELSE parse_args_loop(args, i + 2, <<args[i + 1]>>, out, expect, check_canon)
    ELSE IF args[i] = "--out"
    THEN IF i + 1 > Len(args) THEN ArgsErr("--out requires a path")
         ELSE parse_args_loop(args, i + 2, trace_path, <<args[i + 1]>>, expect, check_canon)
    ELSE IF args[i] = "--expect"
    THEN IF i + 1 > Len(args) THEN ArgsErr("--expect requires a path")
         ELSE parse_args_loop(args, i + 2, trace_path, out, <<args[i + 1]>>, check_canon)
    ELSE IF args[i] = "--check-canon"
    THEN parse_args_loop(args, i + 1, trace_path, out, expect, TRUE)
    ELSE IF args[i] \in {"--help", "-h"} THEN ArgsErr("")
    ELSE ArgsErr("unknown argument")

parse_args(args) == parse_args_loop(args, 1, <<>>, <<>>, <<>>, FALSE)

Missing == [kind |-> "missing", text |-> <<>>]

Directory == [kind |-> "dir", text |-> <<>>]

File(text) == [kind |-> "file", text |-> text]

\* Path::exists
exists(files, path) == files[path].kind # "missing"

\* fs::read_to_string: Ok for a file only.
read_to_string(files, path) == files[path].kind = "file"

\* fs::write: creates or replaces a file; fails on a directory.
write_ok(files, path) == files[path].kind # "dir"

Exit(st, code, files) == [st |-> st, code |-> code, files |-> files]

\* The --expect step, lines 137-148, with the files as they are by then.
replay_expect(a, canon_text, files) ==
    IF a.expect = <<>> THEN Exit("ok", <<EXIT_OK>>, files)
    ELSE IF ~exists(files, a.expect[1]) THEN Exit("err", <<>>, files)
    ELSE IF ~read_to_string(files, a.expect[1]) THEN Exit("err", <<>>, files)
    ELSE IF files[a.expect[1]].text # canon_text THEN Exit("ok", <<EXIT_MISMATCH>>, files)
    ELSE Exit("ok", <<EXIT_OK>>, files)

\* The --out step, lines 131-134, then the --expect step.
replay_out(a, canon_text, files) ==
    IF a.out = <<>> THEN replay_expect(a, canon_text, files)
    ELSE IF ~write_ok(files, a.out[1]) THEN Exit("err", <<>>, files)
    ELSE replay_expect(a, canon_text, [files EXCEPT ![a.out[1]] = File(canon_text)])

replay_main_inner(args, files) ==
    LET parsed == parse_args(args)
    IN  IF parsed.st = "err"
        THEN IF parsed.msg = "" THEN Exit("ok", <<EXIT_OK>>, files)
             ELSE Exit("err", <<>>, files)
        ELSE LET a == parsed.args
             IN  IF ~exists(files, a.trace) THEN Exit("err", <<>>, files)
                 ELSE IF ~read_to_string(files, a.trace) THEN Exit("err", <<>>, files)
                 ELSE LET original == files[a.trace].text
                      IN  Once(read_and_canon(original), LAMBDA canon :
                              IF canon.st # "ok" THEN Exit(canon.st, <<>>, files)
                              ELSE IF a.check_canon /\ original # canon.text
                              THEN Exit("ok", <<EXIT_MISMATCH>>, files)
                              ELSE replay_out(a, canon.text, files))

\* st is "exit" with the code returned, or "panic" when the call unwinds.
replay_main(args, files) ==
    Once(replay_main_inner(args, files), LAMBDA r :
        IF r.st = "ok" THEN Exit("exit", r.code, r.files)
        ELSE IF r.st = "err" THEN Exit("exit", <<EXIT_ERROR>>, r.files)
        ELSE Exit("panic", <<>>, r.files))

(***************************************************************************)
(* SpecReplay draws a command line, a trace file and an expected file and  *)
(* runs replay_main on them.                                               *)
(***************************************************************************)
TracePath == "trace.jsonl"

OutPath == "out.jsonl"

ExpectPath == "expect.jsonl"

Paths == {TracePath, OutPath, ExpectPath}

CanonicalLine == <<"{", "\"", "v", "\"", ":", "1", ",", "\"", "t", "y", "p", "e", "\"", ":", "\"", "a", "\"", ",", "\"", "i", "\"", ":", "0", "}">> \o <<"\n">>

TraceTexts ==
    { CanonicalLine,
      <<"{", "\"", "i", "\"", ":", "0", ",", "\"", "t", "y", "p", "e", "\"", ":", "\"", "a", "\"", ",", "\"", "v", "\"", ":", "1", "}">> \o <<"\n">>,
      <<>>,
      <<"{", "\"", "v", "\"", ":", "1", ",", "\"", "t", "y", "p", "e", "\"", ":", "\"", "a", "\"">> \o <<"\n">>,
      <<"{", "\"", "v", "\"", ":", "1", ",", "\"", "t", "y", "p", "e", "\"", ":", "\"", "a", "\"", "}">> \o <<"\n">>,
      <<"{", "\"", "v", "\"", ":", "1", ",", "\"", "t", "y", "p", "e", "\"", ":", "\"", "a", "\"", ",", "\"", "i", "\"", ":", "1", "}">> \o <<"\n">>,
      <<"{", "\"", "v", "\"", ":", "1", ",", "\"", "t", "y", "p", "e", "\"", ":", "\"", "\\">> \o <<EuroSign>> \o <<"\"", ",", "\"", "i", "\"", ":", "0", "}">> \o <<"\n">> }

ExpectTexts == {CanonicalLine, <<"{", "\"", "v", "\"", ":", "1", ",", "\"", "t", "y", "p", "e", "\"", ":", "\"", "b", "\"", ",", "\"", "i", "\"", ":", "0", "}">> \o <<"\n">>}

CommandLines ==
    { tr \o check \o out \o expect :
        tr \in {<<>>, <<"--trace", TracePath>>},
        check \in {<<>>, <<"--check-canon">>},
        out \in {<<>>, <<"--out", OutPath>>},
        expect \in {<<>>, <<"--expect", ExpectPath>>} }
    \cup {<<"--trace">>, <<"--trace", TracePath, "--verbose">>,
          <<"--trace", TracePath, "--expect">>, <<"--help">>, <<"--check-canon", "-h">>}

FileSystems ==
    { [p \in Paths |-> IF p = TracePath THEN t ELSE IF p = OutPath THEN o ELSE e] :
        t \in {Missing, Directory} \cup {File(x) : x \in TraceTexts},
        o \in {Missing, Directory},
        e \in {Missing, Directory} \cup {File(x) : x \in ExpectTexts} }

InitReplay ==
    \E args \in CommandLines, files \in FileSystems :
        InitPure(Pending("replay_main", <<args, files>>))

ReplayMain ==
    /\ call.op = "replay_main" /\ call.n = 0
    /\ call' = [call EXCEPT !.n = 1, !.ret = replay_main(call.args[1], call.args[2])]
    /\ UNCHANGED <<program, state_vars>>

SpecReplay == InitReplay /\ [][ReplayMain]_vars

HelpRequested(args) == \E k \in 1..Len(args) : args[k] \in {"--help", "-h"}

\* C20: without --help, replay_main returns EXIT_ERROR whenever the
\* arguments are invalid, the trace or the expected file is missing or
\* unreadable, or the trace does not parse or validate; it returns
\* EXIT_MISMATCH only after a successful canonicalization and a requested
\* comparison that differs, EXIT_OK only after a successful canonicalization
\* with every requested comparison equal, and nothing else.
C20_ThreeExitCodes ==
    (Returned("replay_main") /\ ~HelpRequested(call.args[1])) =>
        LET files == call.args[2]
            parsed == parse_args(call.args[1])
            a == parsed.args
            readable(path) == files[path].kind = "file"
            canon == read_and_canon(files[a.trace].text)
            error == \/ parsed.st # "ok"
                     \/ ~readable(a.trace)
                     \/ a.expect # <<>> /\ ~readable(a.expect[1])
                     \/ canon.st # "ok"
            input_differs == a.check_canon /\ files[a.trace].text # canon.text
            expect_differs == a.expect # <<>> /\ files[a.expect[1]].text # canon.text
        IN  /\ call.ret.st = "exit"
            /\ call.ret.code \in {<<EXIT_OK>>, <<EXIT_MISMATCH>>, <<EXIT_ERROR>>}
            /\ error => call.ret.code = <<EXIT_ERROR>>
            /\ call.ret.code = <<EXIT_MISMATCH>> =>
                   ~error /\ (input_differs \/ expect_differs)
            /\ call.ret.code = <<EXIT_OK>> =>
                   ~error /\ ~input_differs /\ ~expect_differs

(***************************************************************************)
(* snapshot_to_json followed by snapshot_from_json as a function of a      *)
(* program and a state: SpecSnapshot draws both from terms of every        *)
(* arity from 0 to 2, nested, and exports then imports once.               *)
(***************************************************************************)
EmptyNode == Node(<<>>)

SnapTerms ==
    { S(NameA), Node(<<S(NameA)>>), N2(S(NameA), N2(S(NameB), S(NameA))),
      EmptyNode, N2(S(NameA), EmptyNode) }

SnapPrograms ==
    { <<>>,
      <<RcxRule(S(PING), Rewrite(S(PONG))), RcxRule(N2(S(NEWS), S(WILD)), ToSink)>>,
      <<RcxRule(Node(<<S(NameA)>>), ToLobe),
        RcxRule(S(NameB), Rewrite(N2(S(NameA), Node(<<S(NameB)>>)))), RcxRule(S(NameA), ToRa)>>,
      <<RcxRule(EmptyNode, ToLobe)>>,
      <<RcxRule(S(NameA), Rewrite(EmptyNode))>> }

SnapBuckets ==
    { <<>>, <<S(NameA), N2(S(NameA), N2(S(NameB), S(NameA)))>>, <<N2(S(NameA), EmptyNode)>> }

SnapRegs == { <<>>, <<Node(<<S(NameA)>>)>>, <<EmptyNode, S(NameB)>> }

SnapCounters == {0, 7, 12}

SnapTraces ==
    { <<>>,
      <<[step_index |-> 1, phase |-> PhaseStep, route |-> "Ra", payload |-> S(NameA)]>> }

SnapStates ==
    { [current |-> c, ra |-> b1, lobes |-> b2, sink |-> b3, null_reg |-> r,
       inf_reg |-> r, trace |-> tr, step_counter |-> n] :
        c \in {<<>>} \cup {<<t>> : t \in SnapTerms}, b1 \in SnapBuckets,
        b2 \in SnapBuckets, b3 \in SnapBuckets, r \in SnapRegs,
        tr \in SnapTraces, n \in SnapCounters }

InitSnapshot ==
    \E p \in SnapPrograms, s \in SnapStates :
        /\ (p # <<>> => s.null_reg = <<>> /\ s.trace = <<>> /\ s.step_counter = 0
                        /\ s.lobes = <<>>)
        /\ InitPure(Pending("snapshot_roundtrip", <<p, s>>))

\* import(export(p, s)), as examples/snapshot_roundtrip_cli.rs composes them
ExportImport ==
    /\ call.op = "snapshot_roundtrip" /\ call.n = 0
    /\ call' = [call EXCEPT !.n = 1,
                            !.ret = snapshot_from_json(WorldName,
                                        snapshot_to_json(WorldName, call.args[1],
                                                         call.args[2]))]
    /\ UNCHANGED <<program, state_vars>>

SpecSnapshot == InitSnapshot /\ [][ExportImport]_vars

RECURSIVE HasEmptyNode(_)
\* some Node of arity 0 occurs in the term
HasEmptyNode(mu) ==
    /\ mu.tag = "Node"
    /\ \/ mu.kids = <<>>
       \/ \E i \in 1..Len(mu.kids) : HasEmptyNode(mu.kids[i])

AnyEmptyNode(rules, st) ==
    \/ \E i \in 1..Len(rules) :
          \/ HasEmptyNode(rules[i].pattern)
          \/ rules[i].action.kind = "Rewrite" /\ HasEmptyNode(rules[i].action.template[1])
    \/ \E i \in 1..Len(st.current) : HasEmptyNode(st.current[i])
    \/ \E b \in {st.ra, st.lobes, st.sink, st.null_reg, st.inf_reg} :
          \E i \in 1..Len(b) : HasEmptyNode(b[i])

\* the program and every field of the state but the trace come back
RoundTripped(rules, st, r) ==
    /\ r.ok
    /\ r.rules = rules
    /\ r.st = [st EXCEPT !.trace = <<>>]

\* C21: for every program and state built from Syms and Nodes of any
\* arity, arity 0 included, importing the exported snapshot succeeds and
\* returns the same rules in the same order and the same current, ra, lobes,
\* sink, null_reg, inf_reg and step_counter, with an empty trace.
C21_ImportInvertsExport ==
    Returned("snapshot_roundtrip") =>
        RoundTripped(call.args[1], call.args[2], call.ret)

\* The round trip of every drawn program and state without a Node of arity 0.
C21_RoundTripWithoutEmptyNodes ==
    (Returned("snapshot_roundtrip") /\ ~AnyEmptyNode(call.args[1], call.args[2])) =>
        RoundTripped(call.args[1], call.args[2], call.ret)

(***************************************************************************)
(* examples/snapshot_roundtrip_cli.rs: a run of process_input calls,       *)
(* a snapshot written and loaded, one more call on the loaded state, and   *)
(* the same calls on one state without a snapshot.                         *)
(***************************************************************************)
MaxPrefix == 2

RECURSIVE run_inputs(_, _, _, _)
\* for mu in inputs { engine.process_input(&mut state, mu.clone()) }
run_inputs(rules, st, inputs, i) ==
    IF i > Len(inputs) THEN st
    ELSE run_inputs(rules, process_input(rules, st, inputs[i]).st, inputs, i + 1)

\* main up to the comparison: [st, after, baseline]; st is "panic" when
\* snapshot_from_json(..).expect("load snapshot") fails, and then there is
\* no state_b.
snapshot_roundtrip_main(rules, seeds_mu, extra) ==
    LET state_a == run_inputs(rules, NewState, seeds_mu, 1)
        snap == snapshot_to_json(WorldName, rules, state_a)
        loaded == snapshot_from_json(WorldName, snap)
        state_c == process_input(rules, run_inputs(rules, NewState, seeds_mu, 1), extra).st
    IN  IF ~loaded.ok
        THEN [st |-> "panic", after |-> NewState, baseline |-> state_c]
        ELSE [st |-> "ok",
              after |-> process_input(loaded.rules, loaded.st, extra).st,
              baseline |-> state_c]

ResumePrograms ==
    RuntimePrograms
    \cup { <<RcxRule(N2(S(DX), S(DY)), Rewrite(N2(S(DY), N2(S(DX), S(DX))))),
             RcxRule(S(PING), ToLobe)>>,
           <<RcxRule(S(PING), Rewrite(EmptyNode))>> }

ResumeInputs ==
    { S(PING), N2(S(NEWS), S(STABLE)), N2(S(PING), S(PING)), Node(<<S(PONG)>>),
      EmptyNode, N2(S(PING), EmptyNode) }

InitResume ==
    \E p \in ResumePrograms, xs \in SeqsUpTo(ResumeInputs, MaxPrefix), y \in ResumeInputs :
        InitPure(Pending("snapshot_roundtrip_main", <<p, xs, y>>))

SnapshotRoundtripMain ==
    /\ call.op = "snapshot_roundtrip_main" /\ call.n = 0
    /\ call' = [call EXCEPT !.n = 1,
                            !.ret = snapshot_roundtrip_main(call.args[1], call.args[2],
                                                            call.args[3])]
    /\ UNCHANGED <<program, state_vars>>

SpecResume == InitResume /\ [][SnapshotRoundtripMain]_vars

SameBuckets(a, b) ==
    /\ a.ra = b.ra /\ a.lobes = b.lobes /\ a.sink = b.sink
    /\ a.step_counter = b.step_counter

\* C22: for every program, input sequence xs and further input y, the run
\* of xs that is exported, imported and continued with y ends with the same
\* ra, lobes, sink and step_counter as the run of xs then y on one state.
C22_SnapshotDoesNotDisturbRun ==
    Returned("snapshot_roundtrip_main") =>
        /\ call.ret.st = "ok"
        /\ SameBuckets(call.ret.after, call.ret.baseline)

\* The same for the runs whose snapshot is read back, which are those whose
\* program and state before the snapshot hold no Node of arity 0.
C22_LoadedRunContinues ==
    Returned("snapshot_roundtrip_main") =>
        /\ call.ret.st = "ok" =>
              SameBuckets(call.ret.after, call.ret.baseline)
        /\ call.ret.st = "ok" <=>
              ~AnyEmptyNode(call.args[1], run_inputs(call.args[1], NewState, call.args[2], 1))

(***************************************************************************)
(* runtime.rs: run_program, one iteration of its loop at a time.  call.n   *)
(* counts the iterations made, call.args lists the value of state.current  *)
(* at the start of each, and call.ret is <<>> while the loop runs and      *)
(* <<"returned">> after the break.  A run is followed for at most          *)
(* MaxRunSteps iterations.                                                 *)
(***************************************************************************)
MaxRunSteps == 6

RunPrograms ==
    { <<>>,
      <<RcxRule(S(NameA), Rewrite(S(NameB))), RcxRule(S(NameB), Rewrite(S(NameA)))>>,
      <<RcxRule(S(NameA), Rewrite(S(NameA)))>>,
      <<RcxRule(S(NameA), Rewrite(S(NameB))), RcxRule(S(NameB), ToSink)>>,
      <<RcxRule(S(PING), Rewrite(S(PONG))), RcxRule(N2(S(NEWS), S(STABLE)), ToRa)>>,
      <<RcxRule(S(NameA), Rewrite(S(NameB))),
        RcxRule(S(NameB), Rewrite(N2(S(NameA), S(NameB)))),
        RcxRule(N2(S(NameA), S(NameB)), Rewrite(S(PING)))>>,
      <<RcxRule(N2(S(NameA), S(NameB)), Rewrite(N2(S(NameA), S(NameB)))),
        RcxRule(S(NameA), ToLobe)>> }

RunSeeds ==
    { S(NameA), S(NameB), S(PING), N2(S(NameA), S(NameB)), N2(S(NameA), S(NameA)),
      N2(S(NEWS), S(STABLE)), Node(<<>>) }

Running(cur) ==
    [op |-> "run_program", n |-> 0, args |-> <<>>, pre |-> [NewState EXCEPT !.current = cur],
     ret |-> <<>>]

InitRunProgram ==
    /\ program \in RunPrograms
    /\ \E cur \in {<<>>} \cup {<<mu>> : mu \in RunSeeds} :
          /\ current = cur
          /\ ra = <<>> /\ lobes = <<>> /\ sink = <<>> /\ null_reg = <<>> /\ inf_reg = <<>>
          /\ trace = <<>> /\ step_counter = 0
          /\ call = Running(cur)

\* if state.current.is_none() { break; }
RunProgramBreak ==
    /\ call.op = "run_program" /\ call.ret = <<>>
    /\ current = <<>>
    /\ call' = [call EXCEPT !.ret = <<"returned">>]
    /\ UNCHANGED <<program, state_vars>>

\* let _ = classify_with_program(state, program);
RunProgramIterate ==
    /\ call.op = "run_program" /\ call.ret = <<>>
    /\ current # <<>>
    /\ call.n < MaxRunSteps
    /\ SetState(classify_with_program(CurState, program).st)
    /\ call' = [call EXCEPT !.n = @ + 1, !.args = Append(@, current[1])]
    /\ UNCHANGED program

NextRunProgram == RunProgramBreak \/ RunProgramIterate

SpecRunProgram ==
    InitRunProgram /\ [][NextRunProgram]_vars /\ WF_vars(NextRunProgram)

RunProgramReturned == call.op = "run_program" /\ call.ret = <<"returned">>

C23_LongRunsRepeat ==
    (call.op = "run_program" /\ call.n = MaxRunSteps /\ current # <<>>) =>
        \E i \in 1..Len(call.args) : \E j \in 1..Len(call.args) :
            i < j /\ call.args[i] = call.args[j]

\* Whenever run_program does return, state.current is None.
C23_ReturnsQuiescent == RunProgramReturned => current = <<>>

(***************************************************************************)
(* The structural fallback of classify_with_program against step: both are *)
(* run on a state seeded with the same term, under a program none of whose *)
(* patterns equals the term.                                               *)
(***************************************************************************)
FallbackPrograms ==
    { <<>>,
      <<RcxRule(S(WILD), ToSink)>>,
      <<RcxRule(N2(S(DX), S(DY)), ToRa), RcxRule(S(NEWS), Rewrite(S(PING)))>> }

InitFallback ==
    \E rules \in FallbackPrograms, mu \in ClassifyTerms :
        /\ \A i \in 1..Len(rules) : rules[i].pattern # mu
        /\ InitPure(Pending("fallback", <<mu, rules>>))

\* RCXState::with_seed(mu), then classify_with_program on one copy and step
\* on another.
Fallback ==
    /\ call.op = "fallback" /\ call.n = 0
    /\ call' = [call EXCEPT
                  !.n = 1,
                  !.ret = [cwp |-> classify_with_program(with_seed(call.args[1]),
                                                         call.args[2]),
                           step |-> step(with_seed(call.args[1]))]]
    /\ UNCHANGED <<program, state_vars>>

SpecFallback == InitFallback /\ [][Fallback]_vars

\* C24: when no rule of the program equals the current term,
\* classify_with_program appends the term to the bucket that step, that is
\* classify, appends it to, and returns that route: for Nodes headed by
\* UNSTABLE or PARADOX, Nodes of arity 0 or 1 and Nodes of equal Node
\* children as for every other term.
C24_FallbackSameAsStep ==
    Returned("fallback") =>
        /\ call.ret.cwp.st.ra = call.ret.step.ra
        /\ call.ret.cwp.st.lobes = call.ret.step.lobes
        /\ call.ret.cwp.st.sink = call.ret.step.sink
        /\ call.ret.cwp.ret = <<call.ret.step.trace[1].route>>

\* The head of a Node whose first child is a Sym, <<>> otherwise.
HeadTag(mu) ==
    IF mu.tag = "Node" /\ mu.kids # <<>> /\ mu.kids[1].tag = "Sym"
    THEN mu.kids[1].name ELSE <<>>

\* The terms the two route differently are those headed by an override tag
\* that the fallback does not look at, and the Nodes of two or more equal
\* children that are Nodes, which the fallback sends to lobes and classify
\* to sink.
C24_WhereFallbackDiffers ==
    Returned("fallback") =>
        LET mu == call.args[1]
            differs == call.ret.cwp.ret # <<call.ret.step.trace[1].route>>
            equal_kids == \A i \in 1..Len(mu.kids) : mu.kids[i] = mu.kids[1]
        IN  differs <=>
              \/ HeadTag(mu) = UNSTABLE /\ Len(mu.kids) >= 2 /\ ~equal_kids
              \/ HeadTag(mu) = PARADOX /\ equal_kids
              \/ /\ mu.tag = "Node" /\ Len(mu.kids) >= 2 /\ equal_kids
                 /\ mu.kids[1].tag = "Node"

(***************************************************************************)
(* Engine::process_input against orbit on the same program of Rewrite      *)
(* rules and the same term: process_input on a fresh state, orbit with     *)
(* max_steps = 1.                                                          *)
(***************************************************************************)
AlikePatterns ==
    { S(PING), S(WILD), S(DX), S(LowerX), N2(S(NEWS), S(WILD)), N2(S(DX), S(DY)),
      N2(S(LowerX), S(LowerY)), N2(S(DX), S(DX)), N2(S(LowerX), S(LowerX)),
      N2(S(NEWS), S(STABLE)) }

AlikeTemplates ==
    { S(PONG), S(DX), S(LowerX), N2(S(DY), S(DX)), N2(S(LowerY), S(LowerX)) }

AlikeRules == { RcxRule(p, Rewrite(t)) : p \in AlikePatterns, t \in AlikeTemplates }

AlikePrograms ==
    {<<>>} \cup {<<r>> : r \in AlikeRules}
           \cup {<<RcxRule(S(PING), Rewrite(S(PONG))), r>> : r \in AlikeRules}

AlikeTerms ==
    { S(PING), S(NameA), S(LowerX), S(DX), S(WILD), N2(S(NEWS), S(STABLE)),
      N2(S(NameA), S(NameB)), N2(S(NameA), S(NameA)) }

InitAlike ==
    \E rules \in AlikePrograms, t \in AlikeTerms :
        InitPure(Pending("rewrite_alike", <<rules, t>>))

\* Engine::new(program).process_input(&mut RCXState::new(), t) and
\* orbit(&program, t, 1)
RewriteAlike ==
    /\ call.op = "rewrite_alike" /\ call.n = 0
    /\ call' = [call EXCEPT
                  !.n = 1,
                  !.ret = [engine |-> process_input(call.args[1], NewState, call.args[2]),
                           orbit |-> orbit(call.args[1], call.args[2], 1)]]
    /\ UNCHANGED <<program, state_vars>>

SpecAlike == InitAlike /\ [][RewriteAlike]_vars

\* process_input went through the Rewrite arm: the event it logged last.
TookRewritePath(st) == st.trace[Len(st.trace)].phase = PhaseRuleRewrite

\* C25: for every program of Rewrite rules and every term t,
\* process_input rewrites t if and only if orbit(P, t, 1) has length 2, and
\* then the term it appends is the second term of the orbit; patterns with
\* `_`, `$`-prefixed symbols and single lowercase letters included.
C25_EnginesRewriteAlike ==
    Returned("rewrite_alike") =>
        LET st == call.ret.engine.st
        IN  /\ TookRewritePath(st) <=> Len(call.ret.orbit) = 2
            /\ TookRewritePath(st) =>
                  /\ Len(call.ret.orbit) = 2
                  /\ call.ret.orbit[2] = st.trace[Len(st.trace)].payload

RECURSIVE HasMatcherSyntax(_)
\* some symbol of the term is `_`, starts with `$` or is one lowercase letter
HasMatcherSyntax(mu) ==
    IF mu.tag = "Sym"
    THEN mu.name = WILD \/ starts_with_dollar(mu.name) \/ is_var(mu.name)
    ELSE \E i \in 1..Len(mu.kids) : HasMatcherSyntax(mu.kids[i])

\* Under programs whose patterns are made of plain symbols only, the two
\* engines do rewrite alike.
C25_AlikeOnPlainPatterns ==
    (/\ Returned("rewrite_alike")
     /\ \A i \in 1..Len(call.args[1]) : ~HasMatcherSyntax(call.args[1][i].pattern)) =>
        LET st == call.ret.engine.st
        IN  /\ TookRewritePath(st) <=> Len(call.ret.orbit) = 2
            /\ TookRewritePath(st) =>
                  call.ret.orbit[2] = st.trace[Len(st.trace)].payload

(***************************************************************************)
(* formatter.rs: bucket_to_string; state_io.rs: save_state, load_state.    *)
(* The file is the text save_state writes; load_state returns [ok, st]     *)
(* with st the target state as the call leaves it, on Ok and on Err.       *)
(***************************************************************************)
bucket_to_string(bucket) ==
    IF bucket = <<>> THEN <<"[", "]">>
    ELSE <<"[">>
         \o join([i \in 1..Len(bucket) |-> mu_to_string(bucket[i])], <<",", " ">>)
         \o <<"]">>

\* The text of the file written by the four writeln! calls.
save_state(st) ==
    <<"#", " ", "R", "C", "X", " ", "s", "t", "a", "t", "e", " ", "s", "n", "a", "p", "s", "h", "o", "t">> \o <<"\n">>
    \o <<"r", "a", " ", "=", " ">> \o bucket_to_string(st.ra) \o <<"\n">>
    \o <<"l", "o", "b", "e", "s", " ", "=", " ">> \o bucket_to_string(st.lobes) \o <<"\n">>
    \o <<"s", "i", "n", "k", " ", "=", " ">> \o bucket_to_string(st.sink) \o <<"\n">>

\* str::strip_prefix as an Option
strip_prefix(s, p) == IF starts_with(s, p) THEN <<from(s, Len(p) + 1)>> ELSE <<>>

RECURSIVE load_lines(_, _, _)
\* The for loop over reader.lines(), from line i on; found is
\* [ra_str, lobes_str, sink_str], each an Option.
load_lines(ls, i, found) ==
    IF i > Len(ls) THEN found
    ELSE LET line == trim(ls[i])
         IN  IF line = <<>> \/ starts_with(line, <<"#">>) THEN load_lines(ls, i + 1, found)
             ELSE IF strip_prefix(line, <<"r", "a", " ", "=">>) # <<>>
             THEN load_lines(ls, i + 1,
                      [found EXCEPT !.ra_str = <<trim(strip_prefix(line, <<"r", "a", " ", "=">>)[1])>>])
             ELSE IF strip_prefix(line, <<"l", "o", "b", "e", "s", " ", "=">>) # <<>>
             THEN load_lines(ls, i + 1,
                      [found EXCEPT !.lobes_str = <<trim(strip_prefix(line, <<"l", "o", "b", "e", "s", " ", "=">>)[1])>>])
             ELSE IF strip_prefix(line, <<"s", "i", "n", "k", " ", "=">>) # <<>>
             THEN load_lines(ls, i + 1,
                      [found EXCEPT !.sink_str = <<trim(strip_prefix(line, <<"s", "i", "n", "k", " ", "=">>)[1])>>])
             ELSE load_lines(ls, i + 1, found)

\* Result<Vec<Mu>, String> as [ok, items]
parse_bucket(src_opt) ==
    LET src == IF src_opt = <<>> THEN <<"[", "]">> ELSE src_opt[1]
        mu == parse_mu(src)
    IN  IF ~mu.ok THEN [ok |-> FALSE, items |-> <<>>]
        ELSE IF mu.mu.tag = "Node" THEN [ok |-> TRUE, items |-> mu.mu.kids]
        ELSE [ok |-> TRUE, items |-> <<mu.mu>>]

\* file is the file at path: File::open fails unless it is a file.
load_state(file, st) ==
    IF file.kind # "file" THEN [ok |-> FALSE, st |-> st]
    ELSE LET found == load_lines(lines(file.text), 1,
                                 [ra_str |-> <<>>, lobes_str |-> <<>>, sink_str |-> <<>>])
             ra_p == parse_bucket(found.ra_str)
             lobes_p == parse_bucket(found.lobes_str)
             sink_p == parse_bucket(found.sink_str)
         IN  IF ~ra_p.ok THEN [ok |-> FALSE, st |-> st]
             ELSE IF ~lobes_p.ok
             THEN [ok |-> FALSE, st |-> [st EXCEPT !.ra = ra_p.items]]
             ELSE IF ~sink_p.ok
             THEN [ok |-> FALSE,
                   st |-> [st EXCEPT !.ra = ra_p.items, !.lobes = lobes_p.items]]
             ELSE [ok |-> TRUE,
                   st |-> [NewState EXCEPT !.ra = ra_p.items, !.lobes = lobes_p.items,
                                           !.sink = sink_p.items]]

SavedBuckets ==
    { <<>>, <<S(NameA)>>, <<N2(S(NameA), S(NameB))>>,
      <<S(NameA), N2(S(NameB), Node(<<S(NameA)>>)), S(NameB)>> }

\* The states that are saved.
SavedStates ==
    { [NewState EXCEPT !.ra = b1, !.lobes = b2, !.sink = b3, !.current = c] :
        b1 \in SavedBuckets, b2 \in SavedBuckets, b3 \in SavedBuckets,
        c \in {<<>>, <<S(NameB)>>} }

\* The states load_state is called on.
TargetStates ==
    { NewState,
      log_event([with_seed(S(PING)) EXCEPT !.ra = <<S(PING)>>, !.null_reg = <<S(NameA)>>],
                PhaseStep, "Ra", S(PING)),
      [NewState EXCEPT !.ra = <<S(PONG)>>, !.lobes = <<Node(<<S(PONG)>>)>>,
                       !.sink = <<N2(S(PING), S(PONG))>>, !.inf_reg = <<S(NameB)>>] }

InitStateIo ==
    \E s \in SavedStates, t \in TargetStates, saved \in BOOLEAN :
        InitPure(Pending("load_state", <<s, t, IF saved THEN File(save_state(s)) ELSE Missing>>))

\* load_state(path, &mut t) on the file save_state(path, &s) wrote, or on a
\* path where nothing was saved.
LoadState ==
    /\ call.op = "load_state" /\ call.n = 0
    /\ call' = [call EXCEPT !.n = 1, !.ret = load_state(call.args[3], call.args[2])]
    /\ UNCHANGED <<program, state_vars>>

SpecStateIo == InitStateIo /\ [][LoadState]_vars

\* ra, lobes and sink of s, and everything else as in RCXState::new()
Restored(s) ==
    [NewState EXCEPT !.ra = s.ra, !.lobes = s.lobes, !.sink = s.sink]

\* C26: loading the file save_state(s) wrote succeeds for every state s,
\* empty buckets included, and leaves ra, lobes and sink of s with current
\* None, an empty trace, step_counter 0 and empty registers; and whenever
\* load_state returns an error the target state is as it was.
C26_LoadRestoresSave ==
    Returned("load_state") =>
        /\ call.args[3].kind = "file" =>
              call.ret.ok /\ call.ret.st = Restored(call.args[1])
        /\ ~call.ret.ok => call.ret.st = call.args[2]

\* A saved state none of whose buckets is empty is restored.
C26_RestoresFullBuckets ==
    (/\ Returned("load_state") /\ call.args[3].kind = "file"
     /\ call.args[1].ra # <<>> /\ call.args[1].lobes # <<>> /\ call.args[1].sink # <<>>) =>
        call.ret.ok /\ call.ret.st = Restored(call.args[1])

\* A saved state with an empty bucket is refused, and the buckets before
\* the first empty one have by then replaced those of the target.
C26_EmptyBucketRefused ==
    (/\ Returned("load_state") /\ call.args[3].kind = "file"
     /\ (call.args[1].ra = <<>> \/ call.args[1].lobes = <<>> \/ call.args[1].sink = <<>>)) =>
        LET s == call.args[1]
            t == call.args[2]
        IN  /\ ~call.ret.ok
            /\ call.ret.st =
                  IF s.ra = <<>> THEN t
                  ELSE IF s.lobes = <<>> THEN [t EXCEPT !.ra = s.ra]
                  ELSE [t EXCEPT !.ra = s.ra, !.lobes = s.lobes]

(***************************************************************************)
(* orbit_json.rs: orbit_to_json.  The bindings of a provenance entry are   *)
(* env.iter() collected (orbit.rs 72-73), and Env is a std HashMap: its    *)
(* iteration order is whatever the hasher of that map gives, so the text   *)
(* is a function of the arguments and of one order of the bound names per  *)
(* rewrite step.                                                           *)
(***************************************************************************)
ORBIT_SCHEMA_V1 == <<"r", "c", "x", ".", "o", "r", "b", "i", "t", ".", "v", "1">>

\* The orders in which a HashMap with these keys can be iterated.
IterOrders(keys) ==
    { q \in [1..Cardinality(keys) -> keys] :
        \A a \in 1..Cardinality(keys) : \A b \in 1..Cardinality(keys) :
            a # b => q[a] # q[b] }

\* One iteration order for the Env of each provenance entry.
ProvOrders(prov) ==
    { os \in [1..Len(prov) -> UNION {IterOrders(DOMAIN prov[j].bindings) : j \in 1..Len(prov)}] :
        \A j \in 1..Len(prov) : os[j] \in IterOrders(DOMAIN prov[j].bindings) }

json_state(i, m) ==
    <<"{", "\"", "i", "\"", ":">> \o format_uint(i) \o <<",", "\"", "m", "u", "\"", ":">> \o json_escape(mu_to_string(m)) \o <<"}">>

json_bindings(env, order) ==
    IF Len(order) = 0 THEN <<>>
    ELSE <<",", "\"", "b", "i", "n", "d", "i", "n", "g", "s", "\"", ":", "{">>
         \o join([k \in 1..Len(order) |->
                     json_escape(order[k]) \o <<":">>
                     \o json_escape(mu_to_string(env[order[k]]))], <<",">>)
         \o <<"}">>

json_provenance(p, order) ==
    <<"{", "\"", "i", "\"", ":">> \o format_uint(p.i) \o <<",", "\"", "r", "u", "l", "e", "_", "i", "\"", ":">> \o format_uint(p.rule_i)
    \o <<",", "\"", "p", "a", "t", "t", "e", "r", "n", "\"", ":">> \o json_escape(mu_to_string(p.pattern))
    \o <<",", "\"", "t", "e", "m", "p", "l", "a", "t", "e", "\"", ":">> \o json_escape(mu_to_string(p.template))
    \o json_bindings(p.bindings, order) \o <<"}">>

\* orders[j] is the iteration order of the Env of the j-th rewrite step.
orbit_to_json(rules, seed, max_steps, orders) ==
    LET r == orbit_with_provenance(rules, seed, max_steps)
    IN  <<"{", "\"", "s", "c", "h", "e", "m", "a", "\"", ":">> \o json_escape(ORBIT_SCHEMA_V1)
        \o <<",", "\"", "s", "e", "e", "d", "\"", ":">> \o json_escape(mu_to_string(seed))
        \o <<",", "\"", "m", "a", "x", "_", "s", "t", "e", "p", "s", "\"", ":">> \o format_uint(max_steps)
        \o <<",", "\"", "s", "t", "a", "t", "e", "s", "\"", ":", "[">>
        \o join([i \in 1..Len(r.seq) |-> json_state(i - 1, r.seq[i])], <<",">>)
        \o <<"]", ",", "\"", "p", "r", "o", "v", "e", "n", "a", "n", "c", "e", "\"", ":", "[">>
        \o join([j \in 1..Len(r.prov) |-> json_provenance(r.prov[j], orders[j])], <<",">>)
        \o <<"]", ",", "\"", "c", "l", "a", "s", "s", "i", "f", "i", "c", "a", "t", "i", "o", "n", "\"", ":">> \o json_escape(classify_orbit(r.seq))
        \o <<"}">>

MaxJsonSteps == 2

OrbitJsonPrograms ==
    { <<>>,
      <<RcxRule(S(PING), Rewrite(S(PONG))), RcxRule(S(PONG), Rewrite(S(PING)))>>,
      <<RcxRule(N2(S(LowerX), S(LowerX)), Rewrite(S(LowerX)))>>,
      <<RcxRule(N2(S(LowerX), S(LowerY)), Rewrite(N2(S(LowerY), S(LowerX))))>>,
      <<RcxRule(N2(S(LowerY), S(NameA)), Rewrite(N2(S(NameB), S(LowerY)))),
        RcxRule(N2(S(LowerX), S(LowerY)), Rewrite(S(LowerX)))>> }

OrbitJsonSeeds ==
    { S(PING), S(NameA), N2(S(NameA), S(NameA)), N2(S(NameA), S(NameB)),
      N2(S(PING), N2(S(NameA), S(NameB))) }

InitOrbitJson ==
    \E rules \in OrbitJsonPrograms, seed \in OrbitJsonSeeds, n \in 0..MaxJsonSteps :
        InitPure(Pending("orbit_to_json", <<rules, seed, n>>))

\* One call of orbit_to_json(call.args), which iterates its maps in some
\* order.
OrbitToJson ==
    /\ call.op = "orbit_to_json" /\ call.n = 0
    /\ \E orders \in ProvOrders(orbit_with_provenance(call.args[1], call.args[2],
                                                      call.args[3]).prov) :
          call' = [call EXCEPT
                     !.n = 1,
                     !.ret = [first |-> orbit_to_json(call.args[1], call.args[2],
                                                      call.args[3], orders),
                              second |-> <<>>]]
    /\ UNCHANGED <<program, state_vars>>

\* A second call with the same arguments.
OrbitToJsonAgain ==
    /\ call.op = "orbit_to_json" /\ call.n = 1
    /\ \E orders \in ProvOrders(orbit_with_provenance(call.args[1], call.args[2],
                                                      call.args[3]).prov) :
          call' = [call EXCEPT
                     !.n = 2,
                     !.ret.second = <<orbit_to_json(call.args[1], call.args[2],
                                                    call.args[3], orders)>>]
    /\ UNCHANGED <<program, state_vars>>

NextOrbitJson == OrbitToJson \/ OrbitToJsonAgain

SpecOrbitJson == InitOrbitJson /\ [][NextOrbitJson]_vars

\* C27: two calls of orbit_to_json with the same program, seed and
\* max_steps return the same bytes, the order of the bindings of each
\* provenance entry included.
C27_OrbitJsonDeterministic ==
    (call.op = "orbit_to_json" /\ call.n = 2) =>
        call.ret.second[1] = call.ret.first

\* The two texts are the same whenever no rewrite step of the orbit binds
\* two or more variables.
C27_SameUpToOneBinding ==
    (/\ call.op = "orbit_to_json" /\ call.n = 2
     /\ \A p \in {orbit_with_provenance(call.args[1], call.args[2], call.args[3]).prov[j] :
                    j \in 1..Len(orbit_with_provenance(call.args[1], call.args[2],
                                                       call.args[3]).prov)} :
            Cardinality(DOMAIN p.bindings) <= 1) =>
        call.ret.second[1] = call.ret.first

(***************************************************************************)
(* The routes of the rule engine, checked under Spec.  RouteKind           *)
(* (trace.rs 3-11) has five values; the engine logs and returns three.     *)
(***************************************************************************)
RouteKind == {"Ra", "Lobe", "Sink", "Rewrite", "Structural"}

MaxPatternArity == 2

LowerWord == <<"a", "b">>

OrbitPatKids ==
    { S(LowerX), S(LowerY), S(NameA), S(LowerWord), Node(<<>>),
      Node(<<S(LowerX)>>), N2(S(LowerY), S(NameA)) }

OrbitPatterns ==
    {S(LowerX), S(NameA), S(LowerWord)}
        \cup {Node(q) : q \in SeqsUpTo(OrbitPatKids, MaxPatternArity)}

GroundKids ==
    { S(NameA), S(NameB), S(LowerWord), Node(<<>>), Node(<<S(NameA)>>),
      N2(S(NameB), S(NameA)) }

\* Terms with no variable in them.
GroundTerms ==
    {S(NameA), S(NameB), S(LowerWord)}
        \cup {Node(q) : q \in SeqsUpTo(GroundKids, MaxPatternArity)}

InitOrbitMatch ==
    \E p \in OrbitPatterns, t \in GroundTerms :
        InitPure(Pending("match_pattern", <<p, t>>))

\* let mut env = Env::new(); match_pattern(p, t, &mut env)
MatchPattern ==
    /\ call.op = "match_pattern" /\ call.n = 0
    /\ call' = [call EXCEPT
                   !.n = 1,
                   !.ret = [m |-> match_pattern(call.args[1], call.args[2], EmptyMap),
                            back |-> <<>>]]
    /\ UNCHANGED <<program, state_vars>>

\* substitute_template(p, &env) after a successful match.
SubstitutePattern ==
    /\ call.op = "match_pattern" /\ call.n = 1
    /\ call.ret.m.ok
    /\ call' = [call EXCEPT
                   !.n = 2,
                   !.ret.back = <<substitute_template(call.args[1], call.ret.m.env)>>]
    /\ UNCHANGED <<program, state_vars>>

NextOrbitMatch == MatchPattern \/ SubstitutePattern

SpecOrbitMatch == InitOrbitMatch /\ [][NextOrbitMatch]_vars

RECURSIVE PatternVars(_)
\* The names of the symbols of p that are one lowercase ASCII letter.
PatternVars(p) ==
    IF p.tag = "Sym"
    THEN IF Len(p.name) = 1 /\ p.name[1] \in LowerLetters THEN {p.name} ELSE {}
    ELSE UNION {PatternVars(p.kids[i]) : i \in 1..Len(p.kids)}

\* C29: if match_pattern(p, t, env) succeeds on a ground term t from an
\* empty env, then substitute_template(p, env) = t, every variable of p is
\* bound in env, and env binds no name that is not a variable of p.
C29_MatchDeterminesTerm ==
    /\ (call.op = "match_pattern" /\ call.n >= 1 /\ call.ret.m.ok) =>
          DOMAIN call.ret.m.env = PatternVars(call.args[1])
    /\ (call.op = "match_pattern" /\ call.n = 2) =>
          call.ret.back[1] = call.args[2]

\* A match that binds two variables, one of them to a Node, with a
\* variable-free symbol in the pattern as well.
C29_Witness ==
    /\ call.op = "match_pattern" /\ call.n = 2
    /\ Cardinality(DOMAIN call.ret.m.env) = 2
    /\ \E v \in DOMAIN call.ret.m.env : call.ret.m.env[v].tag = "Node"
    /\ call.args[1] # call.args[2]
    /\ call.ret.back[1] = call.args[2]

(***************************************************************************)
(* The first repeat of a rewrite sequence, checked under SpecOrbit.  The   *)
(* states of orbit(P, s, N) are the first N + 1 states of the rewrite      *)
(* sequence of s as long as a rule rewrites, so the sequence repeats       *)
(* within the budget exactly when N >= t + p.                              *)
(***************************************************************************)
Repeats(seq, j) == \E i \in 1..(j - 1) : seq[i] = seq[j]

HasRepeat(seq) == \E j \in 1..Len(seq) : Repeats(seq, j)

\* The place of the first state that is equal to an earlier one.
FirstRepeat(seq) ==
    CHOOSE j \in 1..Len(seq) :
        Repeats(seq, j) /\ \A k \in 1..(j - 1) : ~Repeats(seq, k)

\* The number of states before the cycle.
TransientOf(seq) ==
    (CHOOSE i \in 1..(FirstRepeat(seq) - 1) : seq[i] = seq[FirstRepeat(seq)]) - 1

\* The minimal period.
PeriodOf(seq) == FirstRepeat(seq) - 1 - TransientOf(seq)

TransientLabels(seq) ==
    { TxtTransient \o format_uint(k)
        \o (IF PeriodOf(seq) = 1 THEN TxtThenFixedPoint
            ELSE TxtThenCycle \o format_uint(PeriodOf(seq)) \o TxtParenClose) :
      k \in 1..Len(seq) }

====
